---- MODULE Spec2Model ----
(***************************************************************************)
(* A model of the novel reader (src/novel_reader.py).                      *)
(*                                                                         *)
(*   - the text parser NovelReaderApp.parse_novel_file, as operators over  *)
(*     texts that are sequences of one-character strings;                  *)
(*   - the session of NovelReaderApp: constructor, main, library scan,     *)
(*     novel selection, chapter navigation, the progress store, the font   *)
(*     size setting and the closing of the window.                         *)
(*                                                                         *)
(* An optional value (Python's None or a value) is a sequence of length    *)
(* 0 or 1.  A Python str is a sequence of one-character strings; a         *)
(* character outside ASCII is written as its code point, "U+7B2C".         *)
(***************************************************************************)
EXTENDS Integers, Sequences, FiniteSets

VARIABLES
    \* ---- the parser on its own (specification ParseSpec)
    file_content,     \* the decoded text handed to the parser
    parsed,           \* <<>> before the call, <<novel>> after it
    \* ---- the session (specification Spec)
    pc,               \* "start", "constructed", "running", "crashed",
                      \* "closed"; "idle", "parsed", "raised" for the parser
    dialog,           \* "folder" while open_novel_folder waits in its
                      \* message box, else "none"
    settings_file,    \* settings.json on disk
    progress_file,    \* reading_progress.json on disk
    novel_dir,        \* the directory "novel" as the session last found or
                      \* left it: <<>> when absent, else <<the names of
                      \* its files in the order glob yields them>>
    settings,         \* self.settings
    reading_progress, \* self.reading_progress
    novels,           \* self.novels, a dict in insertion order
    novel_tree,       \* the rows of self.novel_tree
    current_novel,    \* self.current_novel: <<>> (None) or <<novel>>
    current_chapter,  \* self.current_chapter
    chapter_combo     \* self.chapter_combo: its values and current index

parse_vars == <<file_content, parsed>>
disk_vars == <<settings_file, progress_file, novel_dir>>
app_vars == <<settings, reading_progress, novels, novel_tree,
              current_novel, current_chapter, chapter_combo>>
vars == <<file_content, parsed, pc, dialog, settings_file, progress_file,
          novel_dir,
          settings, reading_progress, novels, novel_tree,
          current_novel, current_chapter, chapter_combo>>

(***************************************************************************)
(* Bounds of the model.                                                    *)
(***************************************************************************)
MaxLines == 3     \* lines drawn freely for a parser input
MaxPad == 11      \* filler lines put in front of them
MaxFiles == 2     \* files in the novel directory
MaxTime == 1      \* distinct values of datetime.now()

(***************************************************************************)
(* Python str operations.                                                  *)
(***************************************************************************)
NL == "\n"

\* the characters str.isspace() is true of: what str.strip() removes and
\* \s of a str pattern matches
Whitespace ==
    { "\t", NL, "U+000B", "\f", "\r", "U+001C", "U+001D", "U+001E",
      "U+001F", " ", "U+0085", "U+00A0", "U+1680", "U+2000", "U+2001",
      "U+2002", "U+2003", "U+2004", "U+2005", "U+2006", "U+2007",
      "U+2008", "U+2009", "U+200A", "U+2028", "U+2029", "U+202F",
      "U+205F", "U+3000" }

IsSpace(c) == c \in Whitespace

\* the decimal digits of Unicode (category Nd), by value: DigitsOfValue[v + 1]
\* holds the digits of value v.  \d of a str pattern matches them all and
\* int() reads them all.
DigitsOfValue ==
    <<
       { "0", "U+0660", "U+06F0", "U+07C0", "U+0966", "U+09E6", "U+0A66",
         "U+0AE6", "U+0B66", "U+0BE6", "U+0C66", "U+0CE6", "U+0D66",
         "U+0DE6", "U+0E50", "U+0ED0", "U+0F20", "U+1040", "U+1090",
         "U+17E0", "U+1810", "U+1946", "U+19D0", "U+1A80", "U+1A90",
         "U+1B50", "U+1BB0", "U+1C40", "U+1C50", "U+A620", "U+A8D0",
         "U+A900", "U+A9D0", "U+A9F0", "U+AA50", "U+ABF0", "U+FF10",
         "U+104A0", "U+10D30", "U+11066", "U+110F0", "U+11136", "U+111D0",
         "U+112F0", "U+11450", "U+114D0", "U+11650", "U+116C0", "U+11730",
         "U+118E0", "U+11950", "U+11C50", "U+11D50", "U+11DA0", "U+16A60",
         "U+16AC0", "U+16B50", "U+1D7CE", "U+1D7D8", "U+1D7E2", "U+1D7EC",
         "U+1D7F6", "U+1E140", "U+1E2F0", "U+1E950", "U+1FBF0" },
       { "1", "U+0661", "U+06F1", "U+07C1", "U+0967", "U+09E7", "U+0A67",
         "U+0AE7", "U+0B67", "U+0BE7", "U+0C67", "U+0CE7", "U+0D67",
         "U+0DE7", "U+0E51", "U+0ED1", "U+0F21", "U+1041", "U+1091",
         "U+17E1", "U+1811", "U+1947", "U+19D1", "U+1A81", "U+1A91",
         "U+1B51", "U+1BB1", "U+1C41", "U+1C51", "U+A621", "U+A8D1",
         "U+A901", "U+A9D1", "U+A9F1", "U+AA51", "U+ABF1", "U+FF11",
         "U+104A1", "U+10D31", "U+11067", "U+110F1", "U+11137", "U+111D1",
         "U+112F1", "U+11451", "U+114D1", "U+11651", "U+116C1", "U+11731",
         "U+118E1", "U+11951", "U+11C51", "U+11D51", "U+11DA1", "U+16A61",
         "U+16AC1", "U+16B51", "U+1D7CF", "U+1D7D9", "U+1D7E3", "U+1D7ED",
         "U+1D7F7", "U+1E141", "U+1E2F1", "U+1E951", "U+1FBF1" },
       { "2", "U+0662", "U+06F2", "U+07C2", "U+0968", "U+09E8", "U+0A68",
         "U+0AE8", "U+0B68", "U+0BE8", "U+0C68", "U+0CE8", "U+0D68",
         "U+0DE8", "U+0E52", "U+0ED2", "U+0F22", "U+1042", "U+1092",
         "U+17E2", "U+1812", "U+1948", "U+19D2", "U+1A82", "U+1A92",
         "U+1B52", "U+1BB2", "U+1C42", "U+1C52", "U+A622", "U+A8D2",
         "U+A902", "U+A9D2", "U+A9F2", "U+AA52", "U+ABF2", "U+FF12",
         "U+104A2", "U+10D32", "U+11068", "U+110F2", "U+11138", "U+111D2",
         "U+112F2", "U+11452", "U+114D2", "U+11652", "U+116C2", "U+11732",
         "U+118E2", "U+11952", "U+11C52", "U+11D52", "U+11DA2", "U+16A62",
         "U+16AC2", "U+16B52", "U+1D7D0", "U+1D7DA", "U+1D7E4", "U+1D7EE",
         "U+1D7F8", "U+1E142", "U+1E2F2", "U+1E952", "U+1FBF2" },
       { "3", "U+0663", "U+06F3", "U+07C3", "U+0969", "U+09E9", "U+0A69",
         "U+0AE9", "U+0B69", "U+0BE9", "U+0C69", "U+0CE9", "U+0D69",
         "U+0DE9", "U+0E53", "U+0ED3", "U+0F23", "U+1043", "U+1093",
         "U+17E3", "U+1813", "U+1949", "U+19D3", "U+1A83", "U+1A93",
         "U+1B53", "U+1BB3", "U+1C43", "U+1C53", "U+A623", "U+A8D3",
         "U+A903", "U+A9D3", "U+A9F3", "U+AA53", "U+ABF3", "U+FF13",
         "U+104A3", "U+10D33", "U+11069", "U+110F3", "U+11139", "U+111D3",
         "U+112F3", "U+11453", "U+114D3", "U+11653", "U+116C3", "U+11733",
         "U+118E3", "U+11953", "U+11C53", "U+11D53", "U+11DA3", "U+16A63",
         "U+16AC3", "U+16B53", "U+1D7D1", "U+1D7DB", "U+1D7E5", "U+1D7EF",
         "U+1D7F9", "U+1E143", "U+1E2F3", "U+1E953", "U+1FBF3" },
       { "4", "U+0664", "U+06F4", "U+07C4", "U+096A", "U+09EA", "U+0A6A",
         "U+0AEA", "U+0B6A", "U+0BEA", "U+0C6A", "U+0CEA", "U+0D6A",
         "U+0DEA", "U+0E54", "U+0ED4", "U+0F24", "U+1044", "U+1094",
         "U+17E4", "U+1814", "U+194A", "U+19D4", "U+1A84", "U+1A94",
         "U+1B54", "U+1BB4", "U+1C44", "U+1C54", "U+A624", "U+A8D4",
         "U+A904", "U+A9D4", "U+A9F4", "U+AA54", "U+ABF4", "U+FF14",
         "U+104A4", "U+10D34", "U+1106A", "U+110F4", "U+1113A", "U+111D4",
         "U+112F4", "U+11454", "U+114D4", "U+11654", "U+116C4", "U+11734",
         "U+118E4", "U+11954", "U+11C54", "U+11D54", "U+11DA4", "U+16A64",
         "U+16AC4", "U+16B54", "U+1D7D2", "U+1D7DC", "U+1D7E6", "U+1D7F0",
         "U+1D7FA", "U+1E144", "U+1E2F4", "U+1E954", "U+1FBF4" },
       { "5", "U+0665", "U+06F5", "U+07C5", "U+096B", "U+09EB", "U+0A6B",
         "U+0AEB", "U+0B6B", "U+0BEB", "U+0C6B", "U+0CEB", "U+0D6B",
         "U+0DEB", "U+0E55", "U+0ED5", "U+0F25", "U+1045", "U+1095",
         "U+17E5", "U+1815", "U+194B", "U+19D5", "U+1A85", "U+1A95",
         "U+1B55", "U+1BB5", "U+1C45", "U+1C55", "U+A625", "U+A8D5",
         "U+A905", "U+A9D5", "U+A9F5", "U+AA55", "U+ABF5", "U+FF15",
         "U+104A5", "U+10D35", "U+1106B", "U+110F5", "U+1113B", "U+111D5",
         "U+112F5", "U+11455", "U+114D5", "U+11655", "U+116C5", "U+11735",
         "U+118E5", "U+11955", "U+11C55", "U+11D55", "U+11DA5", "U+16A65",
         "U+16AC5", "U+16B55", "U+1D7D3", "U+1D7DD", "U+1D7E7", "U+1D7F1",
         "U+1D7FB", "U+1E145", "U+1E2F5", "U+1E955", "U+1FBF5" },
       { "6", "U+0666", "U+06F6", "U+07C6", "U+096C", "U+09EC", "U+0A6C",
         "U+0AEC", "U+0B6C", "U+0BEC", "U+0C6C", "U+0CEC", "U+0D6C",
         "U+0DEC", "U+0E56", "U+0ED6", "U+0F26", "U+1046", "U+1096",
         "U+17E6", "U+1816", "U+194C", "U+19D6", "U+1A86", "U+1A96",
         "U+1B56", "U+1BB6", "U+1C46", "U+1C56", "U+A626", "U+A8D6",
         "U+A906", "U+A9D6", "U+A9F6", "U+AA56", "U+ABF6", "U+FF16",
         "U+104A6", "U+10D36", "U+1106C", "U+110F6", "U+1113C", "U+111D6",
         "U+112F6", "U+11456", "U+114D6", "U+11656", "U+116C6", "U+11736",
         "U+118E6", "U+11956", "U+11C56", "U+11D56", "U+11DA6", "U+16A66",
         "U+16AC6", "U+16B56", "U+1D7D4", "U+1D7DE", "U+1D7E8", "U+1D7F2",
         "U+1D7FC", "U+1E146", "U+1E2F6", "U+1E956", "U+1FBF6" },
       { "7", "U+0667", "U+06F7", "U+07C7", "U+096D", "U+09ED", "U+0A6D",
         "U+0AED", "U+0B6D", "U+0BED", "U+0C6D", "U+0CED", "U+0D6D",
         "U+0DED", "U+0E57", "U+0ED7", "U+0F27", "U+1047", "U+1097",
         "U+17E7", "U+1817", "U+194D", "U+19D7", "U+1A87", "U+1A97",
         "U+1B57", "U+1BB7", "U+1C47", "U+1C57", "U+A627", "U+A8D7",
         "U+A907", "U+A9D7", "U+A9F7", "U+AA57", "U+ABF7", "U+FF17",
         "U+104A7", "U+10D37", "U+1106D", "U+110F7", "U+1113D", "U+111D7",
         "U+112F7", "U+11457", "U+114D7", "U+11657", "U+116C7", "U+11737",
         "U+118E7", "U+11957", "U+11C57", "U+11D57", "U+11DA7", "U+16A67",
         "U+16AC7", "U+16B57", "U+1D7D5", "U+1D7DF", "U+1D7E9", "U+1D7F3",
         "U+1D7FD", "U+1E147", "U+1E2F7", "U+1E957", "U+1FBF7" },
       { "8", "U+0668", "U+06F8", "U+07C8", "U+096E", "U+09EE", "U+0A6E",
         "U+0AEE", "U+0B6E", "U+0BEE", "U+0C6E", "U+0CEE", "U+0D6E",
         "U+0DEE", "U+0E58", "U+0ED8", "U+0F28", "U+1048", "U+1098",
         "U+17E8", "U+1818", "U+194E", "U+19D8", "U+1A88", "U+1A98",
         "U+1B58", "U+1BB8", "U+1C48", "U+1C58", "U+A628", "U+A8D8",
         "U+A908", "U+A9D8", "U+A9F8", "U+AA58", "U+ABF8", "U+FF18",
         "U+104A8", "U+10D38", "U+1106E", "U+110F8", "U+1113E", "U+111D8",
         "U+112F8", "U+11458", "U+114D8", "U+11658", "U+116C8", "U+11738",
         "U+118E8", "U+11958", "U+11C58", "U+11D58", "U+11DA8", "U+16A68",
         "U+16AC8", "U+16B58", "U+1D7D6", "U+1D7E0", "U+1D7EA", "U+1D7F4",
         "U+1D7FE", "U+1E148", "U+1E2F8", "U+1E958", "U+1FBF8" },
       { "9", "U+0669", "U+06F9", "U+07C9", "U+096F", "U+09EF", "U+0A6F",
         "U+0AEF", "U+0B6F", "U+0BEF", "U+0C6F", "U+0CEF", "U+0D6F",
         "U+0DEF", "U+0E59", "U+0ED9", "U+0F29", "U+1049", "U+1099",
         "U+17E9", "U+1819", "U+194F", "U+19D9", "U+1A89", "U+1A99",
         "U+1B59", "U+1BB9", "U+1C49", "U+1C59", "U+A629", "U+A8D9",
         "U+A909", "U+A9D9", "U+A9F9", "U+AA59", "U+ABF9", "U+FF19",
         "U+104A9", "U+10D39", "U+1106F", "U+110F9", "U+1113F", "U+111D9",
         "U+112F9", "U+11459", "U+114D9", "U+11659", "U+116C9", "U+11739",
         "U+118E9", "U+11959", "U+11C59", "U+11D59", "U+11DA9", "U+16A69",
         "U+16AC9", "U+16B59", "U+1D7D7", "U+1D7E1", "U+1D7EB", "U+1D7F5",
         "U+1D7FF", "U+1E149", "U+1E2F9", "U+1E959", "U+1FBF9" }
    >>

Digits == UNION {DigitsOfValue[i] : i \in 1..10}

DigitValue(c) == (CHOOSE i \in 1..10 : c \in DigitsOfValue[i]) - 1

\* the value of a string of decimal digits
RECURSIVE IntValue(_)
IntValue(s) ==
    IF s = <<>> THEN 0
    ELSE 10 * IntValue(SubSeq(s, 1, Len(s) - 1)) + DigitValue(s[Len(s)])

\* the longest string of digits int() converts
IntMaxStrDigits == 4300

\* int(s) for a string of decimal digits: <<>> when it raises ValueError
\* (more digits than the interpreter's limit), else <<value>>
int(s) == IF Len(s) > IntMaxStrDigits THEN <<>> ELSE <<IntValue(s)>>

\* s.split('\n'): never empty, ''.split('\n') is ['']
RECURSIVE split(_)
split(s) ==
    IF \A i \in 1..Len(s) : s[i] # NL THEN <<s>>
    ELSE LET i == CHOOSE k \in 1..Len(s) :
                      s[k] = NL /\ \A j \in 1..(k - 1) : s[j] # NL
         IN <<SubSeq(s, 1, i - 1)>> \o split(SubSeq(s, i + 1, Len(s)))

\* s.strip()
strip(s) ==
    IF \A i \in 1..Len(s) : IsSpace(s[i]) THEN <<>>
    ELSE LET a == CHOOSE k \in 1..Len(s) :
                      ~IsSpace(s[k]) /\ \A j \in 1..(k - 1) : IsSpace(s[j])
             b == CHOOSE k \in 1..Len(s) :
                      ~IsSpace(s[k]) /\ \A j \in (k + 1)..Len(s) : IsSpace(s[j])
         IN SubSeq(s, a, b)

\* s without the characters of S at its ends
Trim(s, S) ==
    IF \A i \in 1..Len(s) : s[i] \in S THEN <<>>
    ELSE LET a == CHOOSE k \in 1..Len(s) :
                      s[k] \notin S /\ \A j \in 1..(k - 1) : s[j] \in S
             b == CHOOSE k \in 1..Len(s) :
                      s[k] \notin S /\ \A j \in (k + 1)..Len(s) : s[j] \in S
         IN SubSeq(s, a, b)

\* the length of the run of characters of S in s that starts at position i
CharRun(s, i, S) ==
    LET end == CHOOSE j \in i..(Len(s) + 1) :
                   /\ j = Len(s) + 1 \/ s[j] \notin S
                   /\ \A k \in i..(j - 1) : s[k] \in S
    IN end - i

\* s.startswith(p)
startswith(s, p) == Len(s) >= Len(p) /\ SubSeq(s, 1, Len(p)) = p

\* s.replace(old, new): every non-overlapping occurrence, left to right
RECURSIVE replace(_, _, _)
replace(s, old, new) ==
    IF s = <<>> THEN <<>>
    ELSE IF startswith(s, old)
         THEN new \o replace(SubSeq(s, Len(old) + 1, Len(s)), old, new)
         ELSE <<Head(s)>> \o replace(Tail(s), old, new)

\* the k-th smallest element of a set of numbers
Nth(S, k) == CHOOSE i \in S : Cardinality({j \in S : j < i}) = k - 1

\* lines[:n]
prefix(lines, n) == SubSeq(lines, 1, IF Len(lines) < n THEN Len(lines) ELSE n)

(***************************************************************************)
(* parse_novel_file, from the decoded content on.                          *)
(***************************************************************************)
AuthorLabel == <<"U+4F5C", "U+8005", "U+FF1A">>
DefaultTitle == <<"U+672A", "U+77E5", "U+6807", "U+9898">>
AuthorScanLines == 10

\* the length of the run of digits of s that starts at position i
DigitRun(s, i) ==
    LET end == CHOOSE j \in i..(Len(s) + 1) :
                   /\ j = Len(s) + 1 \/ s[j] \notin Digits
                   /\ \A k \in i..(j - 1) : s[k] \in Digits
    IN end - i

\* \s*(.+)$ on the rest of the line after the heading's second mark: k
\* characters of whitespace, then at least one character other than a newline
MatchTail(rest) ==
    \E k \in 0..Len(rest) :
        /\ \A j \in 1..k : IsSpace(rest[j])
        /\ Len(rest) - k >= 1
        /\ \A j \in (k + 1)..Len(rest) : rest[j] # NL

\* chapter_pattern.match(s) for ^U+7B2C(\d+)U+7AE0\s*(.+)$: <<>> (no match) or
\* <<group 1>>
chapter_pattern_match(s) ==
    LET d == DigitRun(s, 2)
    IN IF /\ Len(s) >= 1
          /\ s[1] = "U+7B2C"
          /\ d >= 1
          /\ Len(s) >= d + 2
          /\ s[d + 2] = "U+7AE0"
          /\ MatchTail(SubSeq(s, d + 3, Len(s)))
       THEN <<SubSeq(s, 2, d + 1)>>
       ELSE <<>>

\* the author loop: the first of lines[:10] that starts with the label
RECURSIVE ParseAuthor(_)
ParseAuthor(lines) ==
    IF lines = <<>> THEN <<>>
    ELSE IF startswith(Head(lines), AuthorLabel)
         THEN strip(replace(Head(lines), AuthorLabel, <<>>))
         ELSE ParseAuthor(Tail(lines))

\* the chapter loop over lines[i..]: chapters is novel['chapters'] so far,
\* current is current_chapter (<<>> for None).  The result is [raised,
\* chapters]: raised when int() raised ValueError on a heading's number.
RECURSIVE ParseChapters(_, _, _, _)
ParseChapters(lines, i, chapters, current) ==
    IF i > Len(lines)
    THEN [raised |-> FALSE,
          chapters |-> IF current # <<>> THEN Append(chapters, current[1])
                                         ELSE chapters]
    ELSE LET line == lines[i]
             match == chapter_pattern_match(strip(line))
         IN IF match # <<>>
            THEN IF int(match[1]) = <<>>
                 THEN [raised |-> TRUE, chapters |-> <<>>]
                 ELSE ParseChapters(lines, i + 1,
                          IF current # <<>> THEN Append(chapters, current[1])
                                            ELSE chapters,
                          <<[title |-> strip(line),
                             content |-> <<>>,
                             number |-> int(match[1])[1]]>>)
            ELSE IF current # <<>>
                 THEN ParseChapters(lines, i + 1, chapters,
                          <<[current[1] EXCEPT
                                !.content = @ \o line \o <<NL>>]>>)
                 ELSE ParseChapters(lines, i + 1, chapters, current)

NovelTitle(lines) == IF lines # <<>> THEN lines[1] ELSE DefaultTitle

\* the result is [raised, value]: raised when the chapter loop raised, else
\* value is <<novel>>
parse_content(content) ==
    LET lines == split(content)
        loop == ParseChapters(lines, 1, <<>>, <<>>)
    IN IF loop.raised
       THEN [raised |-> TRUE, value |-> <<>>]
       ELSE [raised |-> FALSE,
             value |-> <<[title |-> NovelTitle(lines),
                          author |-> ParseAuthor(prefix(lines, AuthorScanLines)),
                          chapters |-> loop.chapters,
                          content |-> content]>>]

(***************************************************************************)
(* The parser on its own: the inputs and the call.                         *)
(***************************************************************************)
SeqsUpTo(S, n) == UNION {[1..k -> S] : k \in 0..n}

\* '\n'.join(lines)
RECURSIVE Join(_)
Join(lines) ==
    IF lines = <<>> THEN <<>>
    ELSE IF Len(lines) = 1 THEN lines[1]
    ELSE lines[1] \o <<NL>> \o Join(Tail(lines))

Filler == <<"a">>

Pad(k) == [i \in 1..k |-> Filler]

LineSet ==
    { <<"a">>,
      <<>>,
      <<" ", "U+7B2C", "1", "2", "U+7AE0", " ", "a", " ">>,
      <<"U+7B2C", "2", "U+7AE0", "b">>,
      <<"U+7B2C", "3", "U+7AE0">>,
      <<"U+7B2C", "U+7AE0", " ", "a">>,
      <<"U+7B2C", "0", "1", "U+7AE0", "\t", "a">>,
      <<"U+4F5C", "U+8005", "U+FF1A", "b">>,
      <<"U+4F5C", "U+8005", "U+FF1A", " ", "a",
        "U+4F5C", "U+8005", "U+FF1A", "b", " ">>,
      <<" ", "U+4F5C", "U+8005", "U+FF1A", "a">>,
      <<"U+3000", "U+7B2C", "U+FF11", "U+7AE0", "U+00A0", "a">> }

\* a heading whose number has one digit more than int() converts
LongNumber == [i \in 1..(IntMaxStrDigits + 1) |-> "1"]

LongHeadingText ==
    Join(<< <<"T">>, <<"U+7B2C">> \o LongNumber \o <<"U+7AE0", " ", "a">> >>)

\* "Title\n<label>Alice\n<h>1<h'> <2 chars>\nHello\n<h>2<h'> <2 chars>\nWorld\n"
ScenarioText ==
    Join(<< <<"T", "i", "t", "l", "e">>,
            AuthorLabel \o <<"A", "l", "i", "c", "e">>,
            <<"U+7B2C", "1", "U+7AE0", " ", "U+5F00", "U+7AEF">>,
            <<"H", "e", "l", "l", "o">>,
            <<"U+7B2C", "2", "U+7AE0", " ", "U+8F6C", "U+6298">>,
            <<"W", "o", "r", "l", "d">>,
            <<>> >>)

ParserInputs ==
    {Join(ls) : ls \in SeqsUpTo(LineSet, MaxLines)}
    \cup {Join(Pad(k) \o ls) : k \in 1..MaxPad, ls \in SeqsUpTo(LineSet, 1)}
    \cup {ScenarioText, LongHeadingText}

SessionIdle ==
    /\ pc = "idle"
    /\ dialog = "none"
    /\ settings_file = <<>>
    /\ progress_file = <<>>
    /\ novel_dir = <<>>
    /\ settings = <<>>
    /\ reading_progress = <<>>
    /\ novels = <<>>
    /\ novel_tree = <<>>
    /\ current_novel = <<>>
    /\ current_chapter = 0
    /\ chapter_combo = <<>>

ParseInit ==
    /\ file_content \in ParserInputs
    /\ parsed = <<>>
    /\ SessionIdle

ParseFile ==
    /\ parsed = <<>>
    /\ pc = "idle"
    /\ LET r == parse_content(file_content)
       IN /\ parsed' = r.value
          /\ pc' = IF r.raised THEN "raised" ELSE "parsed"
    /\ UNCHANGED <<file_content, dialog, disk_vars, app_vars>>

ParseNext == ParseFile

ParseSpec == ParseInit /\ [][ParseNext]_vars

\* [ch['title'] for ch in chapters]
Titles(chapters) == [k \in 1..Len(chapters) |-> chapters[k].title]

(***************************************************************************)
(* The files the session reads and writes.                                 *)
(*                                                                         *)
(* A JSON value is a record with its type: "dict" with items a function    *)
(* from keys to values, "list" with items a sequence of values, "int",     *)
(* "float" or "str".  An entry of the progress document as the program     *)
(* writes it is the record [chapter, timestamp].                           *)
(* A JSON document on disk is [state, value]: "missing", "unreadable",     *)
(* "malformed", or "json" with the value its content parses to.            *)
(***************************************************************************)
EmptyDict == [type |-> "dict", items |-> <<>>]
EmptyList == [type |-> "list", items |-> <<>>]

Dict(f) == [type |-> "dict", items |-> f]
List(q) == [type |-> "list", items |-> q]

\* the values of the settings: a Python int, a float (held in tenths), a str
JInt(n) == [type |-> "int", int |-> n]
JFloat(tenths) == [type |-> "float", tenths |-> tenths]
JStr(s) == [type |-> "str", str |-> s]
\* an int of more decimal digits than the integers above hold, by its sign
\* and its digits; a float that is no number of tenths: "inf", "-inf", "nan"
\* (json.load reads Infinity, -Infinity and NaN, json.dump writes them)
JLong(neg, digits) == [type |-> "long", neg |-> neg, digits |-> digits]
JNonFinite(name) == [type |-> "float", nonfinite |-> name]

\* "unreadable": open raises OSError, for reading and for writing alike (a
\* directory in the place of the file, a file the user may not touch)
NoFile(state) == [state |-> state, value |-> EmptyDict]
JsonFile(v) == [state |-> "json", value |-> v]

\* json.load converts every int of the document with int(), which raises
\* ValueError for more than 4300 digits
RECURSIVE IntsReadable(_)
IntsReadable(v) ==
    IF "type" \notin DOMAIN v THEN TRUE
    ELSE CASE v.type = "long" -> Len(v.digits) <= IntMaxStrDigits
           [] v.type = "list" ->
                  \A i \in 1..Len(v.items) : IntsReadable(v.items[i])
           [] v.type = "dict" ->
                  \A k \in DOMAIN v.items : IntsReadable(v.items[k])
           [] OTHER -> TRUE

\* json.load of the document: <<>> when open or json.load raises
json_load(file) ==
    IF file.state = "json" /\ IntsReadable(file.value) THEN <<file.value>>
    ELSE <<>>

\* the code points UTF-8 cannot encode
Surrogates ==
    { "U+D800", "U+D801", "U+D802", "U+D803", "U+D804", "U+D805", "U+D806",
      "U+D807", "U+D808", "U+D809", "U+D80A", "U+D80B", "U+D80C", "U+D80D",
      "U+D80E", "U+D80F", "U+D810", "U+D811", "U+D812", "U+D813", "U+D814",
      "U+D815", "U+D816", "U+D817", "U+D818", "U+D819", "U+D81A", "U+D81B",
      "U+D81C", "U+D81D", "U+D81E", "U+D81F", "U+D820", "U+D821", "U+D822",
      "U+D823", "U+D824", "U+D825", "U+D826", "U+D827", "U+D828", "U+D829",
      "U+D82A", "U+D82B", "U+D82C", "U+D82D", "U+D82E", "U+D82F", "U+D830",
      "U+D831", "U+D832", "U+D833", "U+D834", "U+D835", "U+D836", "U+D837",
      "U+D838", "U+D839", "U+D83A", "U+D83B", "U+D83C", "U+D83D", "U+D83E",
      "U+D83F", "U+D840", "U+D841", "U+D842", "U+D843", "U+D844", "U+D845",
      "U+D846", "U+D847", "U+D848", "U+D849", "U+D84A", "U+D84B", "U+D84C",
      "U+D84D", "U+D84E", "U+D84F", "U+D850", "U+D851", "U+D852", "U+D853",
      "U+D854", "U+D855", "U+D856", "U+D857", "U+D858", "U+D859", "U+D85A",
      "U+D85B", "U+D85C", "U+D85D", "U+D85E", "U+D85F", "U+D860", "U+D861",
      "U+D862", "U+D863", "U+D864", "U+D865", "U+D866", "U+D867", "U+D868",
      "U+D869", "U+D86A", "U+D86B", "U+D86C", "U+D86D", "U+D86E", "U+D86F",
      "U+D870", "U+D871", "U+D872", "U+D873", "U+D874", "U+D875", "U+D876",
      "U+D877", "U+D878", "U+D879", "U+D87A", "U+D87B", "U+D87C", "U+D87D",
      "U+D87E", "U+D87F", "U+D880", "U+D881", "U+D882", "U+D883", "U+D884",
      "U+D885", "U+D886", "U+D887", "U+D888", "U+D889", "U+D88A", "U+D88B",
      "U+D88C", "U+D88D", "U+D88E", "U+D88F", "U+D890", "U+D891", "U+D892",
      "U+D893", "U+D894", "U+D895", "U+D896", "U+D897", "U+D898", "U+D899",
      "U+D89A", "U+D89B", "U+D89C", "U+D89D", "U+D89E", "U+D89F", "U+D8A0",
      "U+D8A1", "U+D8A2", "U+D8A3", "U+D8A4", "U+D8A5", "U+D8A6", "U+D8A7",
      "U+D8A8", "U+D8A9", "U+D8AA", "U+D8AB", "U+D8AC", "U+D8AD", "U+D8AE",
      "U+D8AF", "U+D8B0", "U+D8B1", "U+D8B2", "U+D8B3", "U+D8B4", "U+D8B5",
      "U+D8B6", "U+D8B7", "U+D8B8", "U+D8B9", "U+D8BA", "U+D8BB", "U+D8BC",
      "U+D8BD", "U+D8BE", "U+D8BF", "U+D8C0", "U+D8C1", "U+D8C2", "U+D8C3",
      "U+D8C4", "U+D8C5", "U+D8C6", "U+D8C7", "U+D8C8", "U+D8C9", "U+D8CA",
      "U+D8CB", "U+D8CC", "U+D8CD", "U+D8CE", "U+D8CF", "U+D8D0", "U+D8D1",
      "U+D8D2", "U+D8D3", "U+D8D4", "U+D8D5", "U+D8D6", "U+D8D7", "U+D8D8",
      "U+D8D9", "U+D8DA", "U+D8DB", "U+D8DC", "U+D8DD", "U+D8DE", "U+D8DF",
      "U+D8E0", "U+D8E1", "U+D8E2", "U+D8E3", "U+D8E4", "U+D8E5", "U+D8E6",
      "U+D8E7", "U+D8E8", "U+D8E9", "U+D8EA", "U+D8EB", "U+D8EC", "U+D8ED",
      "U+D8EE", "U+D8EF", "U+D8F0", "U+D8F1", "U+D8F2", "U+D8F3", "U+D8F4",
      "U+D8F5", "U+D8F6", "U+D8F7", "U+D8F8", "U+D8F9", "U+D8FA", "U+D8FB",
      "U+D8FC", "U+D8FD", "U+D8FE", "U+D8FF", "U+D900", "U+D901", "U+D902",
      "U+D903", "U+D904", "U+D905", "U+D906", "U+D907", "U+D908", "U+D909",
      "U+D90A", "U+D90B", "U+D90C", "U+D90D", "U+D90E", "U+D90F", "U+D910",
      "U+D911", "U+D912", "U+D913", "U+D914", "U+D915", "U+D916", "U+D917",
      "U+D918", "U+D919", "U+D91A", "U+D91B", "U+D91C", "U+D91D", "U+D91E",
      "U+D91F", "U+D920", "U+D921", "U+D922", "U+D923", "U+D924", "U+D925",
      "U+D926", "U+D927", "U+D928", "U+D929", "U+D92A", "U+D92B", "U+D92C",
      "U+D92D", "U+D92E", "U+D92F", "U+D930", "U+D931", "U+D932", "U+D933",
      "U+D934", "U+D935", "U+D936", "U+D937", "U+D938", "U+D939", "U+D93A",
      "U+D93B", "U+D93C", "U+D93D", "U+D93E", "U+D93F", "U+D940", "U+D941",
      "U+D942", "U+D943", "U+D944", "U+D945", "U+D946", "U+D947", "U+D948",
      "U+D949", "U+D94A", "U+D94B", "U+D94C", "U+D94D", "U+D94E", "U+D94F",
      "U+D950", "U+D951", "U+D952", "U+D953", "U+D954", "U+D955", "U+D956",
      "U+D957", "U+D958", "U+D959", "U+D95A", "U+D95B", "U+D95C", "U+D95D",
      "U+D95E", "U+D95F", "U+D960", "U+D961", "U+D962", "U+D963", "U+D964",
      "U+D965", "U+D966", "U+D967", "U+D968", "U+D969", "U+D96A", "U+D96B",
      "U+D96C", "U+D96D", "U+D96E", "U+D96F", "U+D970", "U+D971", "U+D972",
      "U+D973", "U+D974", "U+D975", "U+D976", "U+D977", "U+D978", "U+D979",
      "U+D97A", "U+D97B", "U+D97C", "U+D97D", "U+D97E", "U+D97F", "U+D980",
      "U+D981", "U+D982", "U+D983", "U+D984", "U+D985", "U+D986", "U+D987",
      "U+D988", "U+D989", "U+D98A", "U+D98B", "U+D98C", "U+D98D", "U+D98E",
      "U+D98F", "U+D990", "U+D991", "U+D992", "U+D993", "U+D994", "U+D995",
      "U+D996", "U+D997", "U+D998", "U+D999", "U+D99A", "U+D99B", "U+D99C",
      "U+D99D", "U+D99E", "U+D99F", "U+D9A0", "U+D9A1", "U+D9A2", "U+D9A3",
      "U+D9A4", "U+D9A5", "U+D9A6", "U+D9A7", "U+D9A8", "U+D9A9", "U+D9AA",
      "U+D9AB", "U+D9AC", "U+D9AD", "U+D9AE", "U+D9AF", "U+D9B0", "U+D9B1",
      "U+D9B2", "U+D9B3", "U+D9B4", "U+D9B5", "U+D9B6", "U+D9B7", "U+D9B8",
      "U+D9B9", "U+D9BA", "U+D9BB", "U+D9BC", "U+D9BD", "U+D9BE", "U+D9BF",
      "U+D9C0", "U+D9C1", "U+D9C2", "U+D9C3", "U+D9C4", "U+D9C5", "U+D9C6",
      "U+D9C7", "U+D9C8", "U+D9C9", "U+D9CA", "U+D9CB", "U+D9CC", "U+D9CD",
      "U+D9CE", "U+D9CF", "U+D9D0", "U+D9D1", "U+D9D2", "U+D9D3", "U+D9D4",
      "U+D9D5", "U+D9D6", "U+D9D7", "U+D9D8", "U+D9D9", "U+D9DA", "U+D9DB",
      "U+D9DC", "U+D9DD", "U+D9DE", "U+D9DF", "U+D9E0", "U+D9E1", "U+D9E2",
      "U+D9E3", "U+D9E4", "U+D9E5", "U+D9E6", "U+D9E7", "U+D9E8", "U+D9E9",
      "U+D9EA", "U+D9EB", "U+D9EC", "U+D9ED", "U+D9EE", "U+D9EF", "U+D9F0",
      "U+D9F1", "U+D9F2", "U+D9F3", "U+D9F4", "U+D9F5", "U+D9F6", "U+D9F7",
      "U+D9F8", "U+D9F9", "U+D9FA", "U+D9FB", "U+D9FC", "U+D9FD", "U+D9FE",
      "U+D9FF", "U+DA00", "U+DA01", "U+DA02", "U+DA03", "U+DA04", "U+DA05",
      "U+DA06", "U+DA07", "U+DA08", "U+DA09", "U+DA0A", "U+DA0B", "U+DA0C",
      "U+DA0D", "U+DA0E", "U+DA0F", "U+DA10", "U+DA11", "U+DA12", "U+DA13",
      "U+DA14", "U+DA15", "U+DA16", "U+DA17", "U+DA18", "U+DA19", "U+DA1A",
      "U+DA1B", "U+DA1C", "U+DA1D", "U+DA1E", "U+DA1F", "U+DA20", "U+DA21",
      "U+DA22", "U+DA23", "U+DA24", "U+DA25", "U+DA26", "U+DA27", "U+DA28",
      "U+DA29", "U+DA2A", "U+DA2B", "U+DA2C", "U+DA2D", "U+DA2E", "U+DA2F",
      "U+DA30", "U+DA31", "U+DA32", "U+DA33", "U+DA34", "U+DA35", "U+DA36",
      "U+DA37", "U+DA38", "U+DA39", "U+DA3A", "U+DA3B", "U+DA3C", "U+DA3D",
      "U+DA3E", "U+DA3F", "U+DA40", "U+DA41", "U+DA42", "U+DA43", "U+DA44",
      "U+DA45", "U+DA46", "U+DA47", "U+DA48", "U+DA49", "U+DA4A", "U+DA4B",
      "U+DA4C", "U+DA4D", "U+DA4E", "U+DA4F", "U+DA50", "U+DA51", "U+DA52",
      "U+DA53", "U+DA54", "U+DA55", "U+DA56", "U+DA57", "U+DA58", "U+DA59",
      "U+DA5A", "U+DA5B", "U+DA5C", "U+DA5D", "U+DA5E", "U+DA5F", "U+DA60",
      "U+DA61", "U+DA62", "U+DA63", "U+DA64", "U+DA65", "U+DA66", "U+DA67",
      "U+DA68", "U+DA69", "U+DA6A", "U+DA6B", "U+DA6C", "U+DA6D", "U+DA6E",
      "U+DA6F", "U+DA70", "U+DA71", "U+DA72", "U+DA73", "U+DA74", "U+DA75",
      "U+DA76", "U+DA77", "U+DA78", "U+DA79", "U+DA7A", "U+DA7B", "U+DA7C",
      "U+DA7D", "U+DA7E", "U+DA7F", "U+DA80", "U+DA81", "U+DA82", "U+DA83",
      "U+DA84", "U+DA85", "U+DA86", "U+DA87", "U+DA88", "U+DA89", "U+DA8A",
      "U+DA8B", "U+DA8C", "U+DA8D", "U+DA8E", "U+DA8F", "U+DA90", "U+DA91",
      "U+DA92", "U+DA93", "U+DA94", "U+DA95", "U+DA96", "U+DA97", "U+DA98",
      "U+DA99", "U+DA9A", "U+DA9B", "U+DA9C", "U+DA9D", "U+DA9E", "U+DA9F",
      "U+DAA0", "U+DAA1", "U+DAA2", "U+DAA3", "U+DAA4", "U+DAA5", "U+DAA6",
      "U+DAA7", "U+DAA8", "U+DAA9", "U+DAAA", "U+DAAB", "U+DAAC", "U+DAAD",
      "U+DAAE", "U+DAAF", "U+DAB0", "U+DAB1", "U+DAB2", "U+DAB3", "U+DAB4",
      "U+DAB5", "U+DAB6", "U+DAB7", "U+DAB8", "U+DAB9", "U+DABA", "U+DABB",
      "U+DABC", "U+DABD", "U+DABE", "U+DABF", "U+DAC0", "U+DAC1", "U+DAC2",
      "U+DAC3", "U+DAC4", "U+DAC5", "U+DAC6", "U+DAC7", "U+DAC8", "U+DAC9",
      "U+DACA", "U+DACB", "U+DACC", "U+DACD", "U+DACE", "U+DACF", "U+DAD0",
      "U+DAD1", "U+DAD2", "U+DAD3", "U+DAD4", "U+DAD5", "U+DAD6", "U+DAD7",
      "U+DAD8", "U+DAD9", "U+DADA", "U+DADB", "U+DADC", "U+DADD", "U+DADE",
      "U+DADF", "U+DAE0", "U+DAE1", "U+DAE2", "U+DAE3", "U+DAE4", "U+DAE5",
      "U+DAE6", "U+DAE7", "U+DAE8", "U+DAE9", "U+DAEA", "U+DAEB", "U+DAEC",
      "U+DAED", "U+DAEE", "U+DAEF", "U+DAF0", "U+DAF1", "U+DAF2", "U+DAF3",
      "U+DAF4", "U+DAF5", "U+DAF6", "U+DAF7", "U+DAF8", "U+DAF9", "U+DAFA",
      "U+DAFB", "U+DAFC", "U+DAFD", "U+DAFE", "U+DAFF", "U+DB00", "U+DB01",
      "U+DB02", "U+DB03", "U+DB04", "U+DB05", "U+DB06", "U+DB07", "U+DB08",
      "U+DB09", "U+DB0A", "U+DB0B", "U+DB0C", "U+DB0D", "U+DB0E", "U+DB0F",
      "U+DB10", "U+DB11", "U+DB12", "U+DB13", "U+DB14", "U+DB15", "U+DB16",
      "U+DB17", "U+DB18", "U+DB19", "U+DB1A", "U+DB1B", "U+DB1C", "U+DB1D",
      "U+DB1E", "U+DB1F", "U+DB20", "U+DB21", "U+DB22", "U+DB23", "U+DB24",
      "U+DB25", "U+DB26", "U+DB27", "U+DB28", "U+DB29", "U+DB2A", "U+DB2B",
      "U+DB2C", "U+DB2D", "U+DB2E", "U+DB2F", "U+DB30", "U+DB31", "U+DB32",
      "U+DB33", "U+DB34", "U+DB35", "U+DB36", "U+DB37", "U+DB38", "U+DB39",
      "U+DB3A", "U+DB3B", "U+DB3C", "U+DB3D", "U+DB3E", "U+DB3F", "U+DB40",
      "U+DB41", "U+DB42", "U+DB43", "U+DB44", "U+DB45", "U+DB46", "U+DB47",
      "U+DB48", "U+DB49", "U+DB4A", "U+DB4B", "U+DB4C", "U+DB4D", "U+DB4E",
      "U+DB4F", "U+DB50", "U+DB51", "U+DB52", "U+DB53", "U+DB54", "U+DB55",
      "U+DB56", "U+DB57", "U+DB58", "U+DB59", "U+DB5A", "U+DB5B", "U+DB5C",
      "U+DB5D", "U+DB5E", "U+DB5F", "U+DB60", "U+DB61", "U+DB62", "U+DB63",
      "U+DB64", "U+DB65", "U+DB66", "U+DB67", "U+DB68", "U+DB69", "U+DB6A",
      "U+DB6B", "U+DB6C", "U+DB6D", "U+DB6E", "U+DB6F", "U+DB70", "U+DB71",
      "U+DB72", "U+DB73", "U+DB74", "U+DB75", "U+DB76", "U+DB77", "U+DB78",
      "U+DB79", "U+DB7A", "U+DB7B", "U+DB7C", "U+DB7D", "U+DB7E", "U+DB7F",
      "U+DB80", "U+DB81", "U+DB82", "U+DB83", "U+DB84", "U+DB85", "U+DB86",
      "U+DB87", "U+DB88", "U+DB89", "U+DB8A", "U+DB8B", "U+DB8C", "U+DB8D",
      "U+DB8E", "U+DB8F", "U+DB90", "U+DB91", "U+DB92", "U+DB93", "U+DB94",
      "U+DB95", "U+DB96", "U+DB97", "U+DB98", "U+DB99", "U+DB9A", "U+DB9B",
      "U+DB9C", "U+DB9D", "U+DB9E", "U+DB9F", "U+DBA0", "U+DBA1", "U+DBA2",
      "U+DBA3", "U+DBA4", "U+DBA5", "U+DBA6", "U+DBA7", "U+DBA8", "U+DBA9",
      "U+DBAA", "U+DBAB", "U+DBAC", "U+DBAD", "U+DBAE", "U+DBAF", "U+DBB0",
      "U+DBB1", "U+DBB2", "U+DBB3", "U+DBB4", "U+DBB5", "U+DBB6", "U+DBB7",
      "U+DBB8", "U+DBB9", "U+DBBA", "U+DBBB", "U+DBBC", "U+DBBD", "U+DBBE",
      "U+DBBF", "U+DBC0", "U+DBC1", "U+DBC2", "U+DBC3", "U+DBC4", "U+DBC5",
      "U+DBC6", "U+DBC7", "U+DBC8", "U+DBC9", "U+DBCA", "U+DBCB", "U+DBCC",
      "U+DBCD", "U+DBCE", "U+DBCF", "U+DBD0", "U+DBD1", "U+DBD2", "U+DBD3",
      "U+DBD4", "U+DBD5", "U+DBD6", "U+DBD7", "U+DBD8", "U+DBD9", "U+DBDA",
      "U+DBDB", "U+DBDC", "U+DBDD", "U+DBDE", "U+DBDF", "U+DBE0", "U+DBE1",
      "U+DBE2", "U+DBE3", "U+DBE4", "U+DBE5", "U+DBE6", "U+DBE7", "U+DBE8",
      "U+DBE9", "U+DBEA", "U+DBEB", "U+DBEC", "U+DBED", "U+DBEE", "U+DBEF",
      "U+DBF0", "U+DBF1", "U+DBF2", "U+DBF3", "U+DBF4", "U+DBF5", "U+DBF6",
      "U+DBF7", "U+DBF8", "U+DBF9", "U+DBFA", "U+DBFB", "U+DBFC", "U+DBFD",
      "U+DBFE", "U+DBFF", "U+DC00", "U+DC01", "U+DC02", "U+DC03", "U+DC04",
      "U+DC05", "U+DC06", "U+DC07", "U+DC08", "U+DC09", "U+DC0A", "U+DC0B",
      "U+DC0C", "U+DC0D", "U+DC0E", "U+DC0F", "U+DC10", "U+DC11", "U+DC12",
      "U+DC13", "U+DC14", "U+DC15", "U+DC16", "U+DC17", "U+DC18", "U+DC19",
      "U+DC1A", "U+DC1B", "U+DC1C", "U+DC1D", "U+DC1E", "U+DC1F", "U+DC20",
      "U+DC21", "U+DC22", "U+DC23", "U+DC24", "U+DC25", "U+DC26", "U+DC27",
      "U+DC28", "U+DC29", "U+DC2A", "U+DC2B", "U+DC2C", "U+DC2D", "U+DC2E",
      "U+DC2F", "U+DC30", "U+DC31", "U+DC32", "U+DC33", "U+DC34", "U+DC35",
      "U+DC36", "U+DC37", "U+DC38", "U+DC39", "U+DC3A", "U+DC3B", "U+DC3C",
      "U+DC3D", "U+DC3E", "U+DC3F", "U+DC40", "U+DC41", "U+DC42", "U+DC43",
      "U+DC44", "U+DC45", "U+DC46", "U+DC47", "U+DC48", "U+DC49", "U+DC4A",
      "U+DC4B", "U+DC4C", "U+DC4D", "U+DC4E", "U+DC4F", "U+DC50", "U+DC51",
      "U+DC52", "U+DC53", "U+DC54", "U+DC55", "U+DC56", "U+DC57", "U+DC58",
      "U+DC59", "U+DC5A", "U+DC5B", "U+DC5C", "U+DC5D", "U+DC5E", "U+DC5F",
      "U+DC60", "U+DC61", "U+DC62", "U+DC63", "U+DC64", "U+DC65", "U+DC66",
      "U+DC67", "U+DC68", "U+DC69", "U+DC6A", "U+DC6B", "U+DC6C", "U+DC6D",
      "U+DC6E", "U+DC6F", "U+DC70", "U+DC71", "U+DC72", "U+DC73", "U+DC74",
      "U+DC75", "U+DC76", "U+DC77", "U+DC78", "U+DC79", "U+DC7A", "U+DC7B",
      "U+DC7C", "U+DC7D", "U+DC7E", "U+DC7F", "U+DC80", "U+DC81", "U+DC82",
      "U+DC83", "U+DC84", "U+DC85", "U+DC86", "U+DC87", "U+DC88", "U+DC89",
      "U+DC8A", "U+DC8B", "U+DC8C", "U+DC8D", "U+DC8E", "U+DC8F", "U+DC90",
      "U+DC91", "U+DC92", "U+DC93", "U+DC94", "U+DC95", "U+DC96", "U+DC97",
      "U+DC98", "U+DC99", "U+DC9A", "U+DC9B", "U+DC9C", "U+DC9D", "U+DC9E",
      "U+DC9F", "U+DCA0", "U+DCA1", "U+DCA2", "U+DCA3", "U+DCA4", "U+DCA5",
      "U+DCA6", "U+DCA7", "U+DCA8", "U+DCA9", "U+DCAA", "U+DCAB", "U+DCAC",
      "U+DCAD", "U+DCAE", "U+DCAF", "U+DCB0", "U+DCB1", "U+DCB2", "U+DCB3",
      "U+DCB4", "U+DCB5", "U+DCB6", "U+DCB7", "U+DCB8", "U+DCB9", "U+DCBA",
      "U+DCBB", "U+DCBC", "U+DCBD", "U+DCBE", "U+DCBF", "U+DCC0", "U+DCC1",
      "U+DCC2", "U+DCC3", "U+DCC4", "U+DCC5", "U+DCC6", "U+DCC7", "U+DCC8",
      "U+DCC9", "U+DCCA", "U+DCCB", "U+DCCC", "U+DCCD", "U+DCCE", "U+DCCF",
      "U+DCD0", "U+DCD1", "U+DCD2", "U+DCD3", "U+DCD4", "U+DCD5", "U+DCD6",
      "U+DCD7", "U+DCD8", "U+DCD9", "U+DCDA", "U+DCDB", "U+DCDC", "U+DCDD",
      "U+DCDE", "U+DCDF", "U+DCE0", "U+DCE1", "U+DCE2", "U+DCE3", "U+DCE4",
      "U+DCE5", "U+DCE6", "U+DCE7", "U+DCE8", "U+DCE9", "U+DCEA", "U+DCEB",
      "U+DCEC", "U+DCED", "U+DCEE", "U+DCEF", "U+DCF0", "U+DCF1", "U+DCF2",
      "U+DCF3", "U+DCF4", "U+DCF5", "U+DCF6", "U+DCF7", "U+DCF8", "U+DCF9",
      "U+DCFA", "U+DCFB", "U+DCFC", "U+DCFD", "U+DCFE", "U+DCFF", "U+DD00",
      "U+DD01", "U+DD02", "U+DD03", "U+DD04", "U+DD05", "U+DD06", "U+DD07",
      "U+DD08", "U+DD09", "U+DD0A", "U+DD0B", "U+DD0C", "U+DD0D", "U+DD0E",
      "U+DD0F", "U+DD10", "U+DD11", "U+DD12", "U+DD13", "U+DD14", "U+DD15",
      "U+DD16", "U+DD17", "U+DD18", "U+DD19", "U+DD1A", "U+DD1B", "U+DD1C",
      "U+DD1D", "U+DD1E", "U+DD1F", "U+DD20", "U+DD21", "U+DD22", "U+DD23",
      "U+DD24", "U+DD25", "U+DD26", "U+DD27", "U+DD28", "U+DD29", "U+DD2A",
      "U+DD2B", "U+DD2C", "U+DD2D", "U+DD2E", "U+DD2F", "U+DD30", "U+DD31",
      "U+DD32", "U+DD33", "U+DD34", "U+DD35", "U+DD36", "U+DD37", "U+DD38",
      "U+DD39", "U+DD3A", "U+DD3B", "U+DD3C", "U+DD3D", "U+DD3E", "U+DD3F",
      "U+DD40", "U+DD41", "U+DD42", "U+DD43", "U+DD44", "U+DD45", "U+DD46",
      "U+DD47", "U+DD48", "U+DD49", "U+DD4A", "U+DD4B", "U+DD4C", "U+DD4D",
      "U+DD4E", "U+DD4F", "U+DD50", "U+DD51", "U+DD52", "U+DD53", "U+DD54",
      "U+DD55", "U+DD56", "U+DD57", "U+DD58", "U+DD59", "U+DD5A", "U+DD5B",
      "U+DD5C", "U+DD5D", "U+DD5E", "U+DD5F", "U+DD60", "U+DD61", "U+DD62",
      "U+DD63", "U+DD64", "U+DD65", "U+DD66", "U+DD67", "U+DD68", "U+DD69",
      "U+DD6A", "U+DD6B", "U+DD6C", "U+DD6D", "U+DD6E", "U+DD6F", "U+DD70",
      "U+DD71", "U+DD72", "U+DD73", "U+DD74", "U+DD75", "U+DD76", "U+DD77",
      "U+DD78", "U+DD79", "U+DD7A", "U+DD7B", "U+DD7C", "U+DD7D", "U+DD7E",
      "U+DD7F", "U+DD80", "U+DD81", "U+DD82", "U+DD83", "U+DD84", "U+DD85",
      "U+DD86", "U+DD87", "U+DD88", "U+DD89", "U+DD8A", "U+DD8B", "U+DD8C",
      "U+DD8D", "U+DD8E", "U+DD8F", "U+DD90", "U+DD91", "U+DD92", "U+DD93",
      "U+DD94", "U+DD95", "U+DD96", "U+DD97", "U+DD98", "U+DD99", "U+DD9A",
      "U+DD9B", "U+DD9C", "U+DD9D", "U+DD9E", "U+DD9F", "U+DDA0", "U+DDA1",
      "U+DDA2", "U+DDA3", "U+DDA4", "U+DDA5", "U+DDA6", "U+DDA7", "U+DDA8",
      "U+DDA9", "U+DDAA", "U+DDAB", "U+DDAC", "U+DDAD", "U+DDAE", "U+DDAF",
      "U+DDB0", "U+DDB1", "U+DDB2", "U+DDB3", "U+DDB4", "U+DDB5", "U+DDB6",
      "U+DDB7", "U+DDB8", "U+DDB9", "U+DDBA", "U+DDBB", "U+DDBC", "U+DDBD",
      "U+DDBE", "U+DDBF", "U+DDC0", "U+DDC1", "U+DDC2", "U+DDC3", "U+DDC4",
      "U+DDC5", "U+DDC6", "U+DDC7", "U+DDC8", "U+DDC9", "U+DDCA", "U+DDCB",
      "U+DDCC", "U+DDCD", "U+DDCE", "U+DDCF", "U+DDD0", "U+DDD1", "U+DDD2",
      "U+DDD3", "U+DDD4", "U+DDD5", "U+DDD6", "U+DDD7", "U+DDD8", "U+DDD9",
      "U+DDDA", "U+DDDB", "U+DDDC", "U+DDDD", "U+DDDE", "U+DDDF", "U+DDE0",
      "U+DDE1", "U+DDE2", "U+DDE3", "U+DDE4", "U+DDE5", "U+DDE6", "U+DDE7",
      "U+DDE8", "U+DDE9", "U+DDEA", "U+DDEB", "U+DDEC", "U+DDED", "U+DDEE",
      "U+DDEF", "U+DDF0", "U+DDF1", "U+DDF2", "U+DDF3", "U+DDF4", "U+DDF5",
      "U+DDF6", "U+DDF7", "U+DDF8", "U+DDF9", "U+DDFA", "U+DDFB", "U+DDFC",
      "U+DDFD", "U+DDFE", "U+DDFF", "U+DE00", "U+DE01", "U+DE02", "U+DE03",
      "U+DE04", "U+DE05", "U+DE06", "U+DE07", "U+DE08", "U+DE09", "U+DE0A",
      "U+DE0B", "U+DE0C", "U+DE0D", "U+DE0E", "U+DE0F", "U+DE10", "U+DE11",
      "U+DE12", "U+DE13", "U+DE14", "U+DE15", "U+DE16", "U+DE17", "U+DE18",
      "U+DE19", "U+DE1A", "U+DE1B", "U+DE1C", "U+DE1D", "U+DE1E", "U+DE1F",
      "U+DE20", "U+DE21", "U+DE22", "U+DE23", "U+DE24", "U+DE25", "U+DE26",
      "U+DE27", "U+DE28", "U+DE29", "U+DE2A", "U+DE2B", "U+DE2C", "U+DE2D",
      "U+DE2E", "U+DE2F", "U+DE30", "U+DE31", "U+DE32", "U+DE33", "U+DE34",
      "U+DE35", "U+DE36", "U+DE37", "U+DE38", "U+DE39", "U+DE3A", "U+DE3B",
      "U+DE3C", "U+DE3D", "U+DE3E", "U+DE3F", "U+DE40", "U+DE41", "U+DE42",
      "U+DE43", "U+DE44", "U+DE45", "U+DE46", "U+DE47", "U+DE48", "U+DE49",
      "U+DE4A", "U+DE4B", "U+DE4C", "U+DE4D", "U+DE4E", "U+DE4F", "U+DE50",
      "U+DE51", "U+DE52", "U+DE53", "U+DE54", "U+DE55", "U+DE56", "U+DE57",
      "U+DE58", "U+DE59", "U+DE5A", "U+DE5B", "U+DE5C", "U+DE5D", "U+DE5E",
      "U+DE5F", "U+DE60", "U+DE61", "U+DE62", "U+DE63", "U+DE64", "U+DE65",
      "U+DE66", "U+DE67", "U+DE68", "U+DE69", "U+DE6A", "U+DE6B", "U+DE6C",
      "U+DE6D", "U+DE6E", "U+DE6F", "U+DE70", "U+DE71", "U+DE72", "U+DE73",
      "U+DE74", "U+DE75", "U+DE76", "U+DE77", "U+DE78", "U+DE79", "U+DE7A",
      "U+DE7B", "U+DE7C", "U+DE7D", "U+DE7E", "U+DE7F", "U+DE80", "U+DE81",
      "U+DE82", "U+DE83", "U+DE84", "U+DE85", "U+DE86", "U+DE87", "U+DE88",
      "U+DE89", "U+DE8A", "U+DE8B", "U+DE8C", "U+DE8D", "U+DE8E", "U+DE8F",
      "U+DE90", "U+DE91", "U+DE92", "U+DE93", "U+DE94", "U+DE95", "U+DE96",
      "U+DE97", "U+DE98", "U+DE99", "U+DE9A", "U+DE9B", "U+DE9C", "U+DE9D",
      "U+DE9E", "U+DE9F", "U+DEA0", "U+DEA1", "U+DEA2", "U+DEA3", "U+DEA4",
      "U+DEA5", "U+DEA6", "U+DEA7", "U+DEA8", "U+DEA9", "U+DEAA", "U+DEAB",
      "U+DEAC", "U+DEAD", "U+DEAE", "U+DEAF", "U+DEB0", "U+DEB1", "U+DEB2",
      "U+DEB3", "U+DEB4", "U+DEB5", "U+DEB6", "U+DEB7", "U+DEB8", "U+DEB9",
      "U+DEBA", "U+DEBB", "U+DEBC", "U+DEBD", "U+DEBE", "U+DEBF", "U+DEC0",
      "U+DEC1", "U+DEC2", "U+DEC3", "U+DEC4", "U+DEC5", "U+DEC6", "U+DEC7",
      "U+DEC8", "U+DEC9", "U+DECA", "U+DECB", "U+DECC", "U+DECD", "U+DECE",
      "U+DECF", "U+DED0", "U+DED1", "U+DED2", "U+DED3", "U+DED4", "U+DED5",
      "U+DED6", "U+DED7", "U+DED8", "U+DED9", "U+DEDA", "U+DEDB", "U+DEDC",
      "U+DEDD", "U+DEDE", "U+DEDF", "U+DEE0", "U+DEE1", "U+DEE2", "U+DEE3",
      "U+DEE4", "U+DEE5", "U+DEE6", "U+DEE7", "U+DEE8", "U+DEE9", "U+DEEA",
      "U+DEEB", "U+DEEC", "U+DEED", "U+DEEE", "U+DEEF", "U+DEF0", "U+DEF1",
      "U+DEF2", "U+DEF3", "U+DEF4", "U+DEF5", "U+DEF6", "U+DEF7", "U+DEF8",
      "U+DEF9", "U+DEFA", "U+DEFB", "U+DEFC", "U+DEFD", "U+DEFE", "U+DEFF",
      "U+DF00", "U+DF01", "U+DF02", "U+DF03", "U+DF04", "U+DF05", "U+DF06",
      "U+DF07", "U+DF08", "U+DF09", "U+DF0A", "U+DF0B", "U+DF0C", "U+DF0D",
      "U+DF0E", "U+DF0F", "U+DF10", "U+DF11", "U+DF12", "U+DF13", "U+DF14",
      "U+DF15", "U+DF16", "U+DF17", "U+DF18", "U+DF19", "U+DF1A", "U+DF1B",
      "U+DF1C", "U+DF1D", "U+DF1E", "U+DF1F", "U+DF20", "U+DF21", "U+DF22",
      "U+DF23", "U+DF24", "U+DF25", "U+DF26", "U+DF27", "U+DF28", "U+DF29",
      "U+DF2A", "U+DF2B", "U+DF2C", "U+DF2D", "U+DF2E", "U+DF2F", "U+DF30",
      "U+DF31", "U+DF32", "U+DF33", "U+DF34", "U+DF35", "U+DF36", "U+DF37",
      "U+DF38", "U+DF39", "U+DF3A", "U+DF3B", "U+DF3C", "U+DF3D", "U+DF3E",
      "U+DF3F", "U+DF40", "U+DF41", "U+DF42", "U+DF43", "U+DF44", "U+DF45",
      "U+DF46", "U+DF47", "U+DF48", "U+DF49", "U+DF4A", "U+DF4B", "U+DF4C",
      "U+DF4D", "U+DF4E", "U+DF4F", "U+DF50", "U+DF51", "U+DF52", "U+DF53",
      "U+DF54", "U+DF55", "U+DF56", "U+DF57", "U+DF58", "U+DF59", "U+DF5A",
      "U+DF5B", "U+DF5C", "U+DF5D", "U+DF5E", "U+DF5F", "U+DF60", "U+DF61",
      "U+DF62", "U+DF63", "U+DF64", "U+DF65", "U+DF66", "U+DF67", "U+DF68",
      "U+DF69", "U+DF6A", "U+DF6B", "U+DF6C", "U+DF6D", "U+DF6E", "U+DF6F",
      "U+DF70", "U+DF71", "U+DF72", "U+DF73", "U+DF74", "U+DF75", "U+DF76",
      "U+DF77", "U+DF78", "U+DF79", "U+DF7A", "U+DF7B", "U+DF7C", "U+DF7D",
      "U+DF7E", "U+DF7F", "U+DF80", "U+DF81", "U+DF82", "U+DF83", "U+DF84",
      "U+DF85", "U+DF86", "U+DF87", "U+DF88", "U+DF89", "U+DF8A", "U+DF8B",
      "U+DF8C", "U+DF8D", "U+DF8E", "U+DF8F", "U+DF90", "U+DF91", "U+DF92",
      "U+DF93", "U+DF94", "U+DF95", "U+DF96", "U+DF97", "U+DF98", "U+DF99",
      "U+DF9A", "U+DF9B", "U+DF9C", "U+DF9D", "U+DF9E", "U+DF9F", "U+DFA0",
      "U+DFA1", "U+DFA2", "U+DFA3", "U+DFA4", "U+DFA5", "U+DFA6", "U+DFA7",
      "U+DFA8", "U+DFA9", "U+DFAA", "U+DFAB", "U+DFAC", "U+DFAD", "U+DFAE",
      "U+DFAF", "U+DFB0", "U+DFB1", "U+DFB2", "U+DFB3", "U+DFB4", "U+DFB5",
      "U+DFB6", "U+DFB7", "U+DFB8", "U+DFB9", "U+DFBA", "U+DFBB", "U+DFBC",
      "U+DFBD", "U+DFBE", "U+DFBF", "U+DFC0", "U+DFC1", "U+DFC2", "U+DFC3",
      "U+DFC4", "U+DFC5", "U+DFC6", "U+DFC7", "U+DFC8", "U+DFC9", "U+DFCA",
      "U+DFCB", "U+DFCC", "U+DFCD", "U+DFCE", "U+DFCF", "U+DFD0", "U+DFD1",
      "U+DFD2", "U+DFD3", "U+DFD4", "U+DFD5", "U+DFD6", "U+DFD7", "U+DFD8",
      "U+DFD9", "U+DFDA", "U+DFDB", "U+DFDC", "U+DFDD", "U+DFDE", "U+DFDF",
      "U+DFE0", "U+DFE1", "U+DFE2", "U+DFE3", "U+DFE4", "U+DFE5", "U+DFE6",
      "U+DFE7", "U+DFE8", "U+DFE9", "U+DFEA", "U+DFEB", "U+DFEC", "U+DFED",
      "U+DFEE", "U+DFEF", "U+DFF0", "U+DFF1", "U+DFF2", "U+DFF3", "U+DFF4",
      "U+DFF5", "U+DFF6", "U+DFF7", "U+DFF8", "U+DFF9", "U+DFFA", "U+DFFB",
      "U+DFFC", "U+DFFD", "U+DFFE", "U+DFFF" }

\* s.encode('utf-8') succeeds
StrEncodable(s) == \A i \in 1..Len(s) : s[i] \notin Surrogates

\* every str of the value, at any depth, keys included, can be written to a
\* UTF-8 file (an entry the program wrote holds an int and an ISO date)
RECURSIVE ValueEncodable(_)
ValueEncodable(v) ==
    IF "type" \notin DOMAIN v THEN TRUE
    ELSE CASE v.type = "str" -> StrEncodable(v.str)
           [] v.type = "list" ->
                  \A i \in 1..Len(v.items) : ValueEncodable(v.items[i])
           [] v.type = "dict" ->
                  \A k \in DOMAIN v.items :
                      StrEncodable(k) /\ ValueEncodable(v.items[k])
           [] OTHER -> TRUE

\* json.dump of the document does not raise UnicodeEncodeError
DocEncodable(doc) == ValueEncodable(doc)

\* with open(path, 'w', encoding='utf-8') as f: json.dump(doc, f,
\* ensure_ascii=False, indent=2), inside try/except: pass.  The file after
\* it: untouched when open raises; cut short (open has truncated it and the
\* dump stopped at the first str it could not encode) when the dump raises.
json_dump(file, doc) ==
    IF file.state = "unreadable" THEN file
    ELSE IF ~DocEncodable(doc) THEN NoFile("malformed")
    ELSE JsonFile(doc)

\* d[key] = value for a function d
DictSet(d, key, value) ==
    [k \in DOMAIN d \cup {key} |-> IF k = key THEN value ELSE d[k]]

\* load_settings
load_settings(file) ==
    LET doc == json_load(file) IN IF doc # <<>> THEN doc[1] ELSE EmptyDict

\* load_reading_progress
load_reading_progress(file) ==
    LET doc == json_load(file) IN IF doc # <<>> THEN doc[1] ELSE EmptyDict

\* the keys of the settings
KeyFontSize == <<"f", "o", "n", "t", "_", "s", "i", "z", "e">>
KeyLineSpacing ==
    <<"l", "i", "n", "e", "_", "s", "p", "a", "c", "i", "n", "g">>

\* The numbers of Tcl, as Tcl_GetLongFromObj and Tcl_GetDoubleFromObj read a
\* str: white space, a sign, and an integer (decimal, 0x, 0b, 0o, or octal
\* after a leading 0), a decimal fraction with or without exponent, or inf /
\* infinity in any case.  nan is not read.
TclSpace == {" ", "\t", NL, "\r", "\f", "U+000B"}
AsciiDigits == {"0", "1", "2", "3", "4", "5", "6", "7", "8", "9"}
OctDigits == {"0", "1", "2", "3", "4", "5", "6", "7"}
BinDigits == {"0", "1"}
HexDigits ==
    AsciiDigits \cup {"a", "b", "c", "d", "e", "f", "A", "B", "C", "D", "E", "F"}

\* s without the white space around it and without its sign
TclBody(s) ==
    LET t == Trim(s, TclSpace)
    IN IF t # <<>> /\ t[1] \in {"+", "-"} THEN Tail(t) ELSE t

\* 0, a radix mark and at least one digit of the radix
TclRadix(b, marks, digits) ==
    /\ Len(b) >= 3
    /\ b[1] = "0"
    /\ b[2] \in marks
    /\ \A j \in 3..Len(b) : b[j] \in digits

\* an integer: digits alone after a leading 0 are octal digits
TclInteger(b) ==
    \/ TclRadix(b, {"x", "X"}, HexDigits)
    \/ TclRadix(b, {"b", "B"}, BinDigits)
    \/ TclRadix(b, {"o", "O"}, OctDigits)
    \/ /\ Len(b) >= 1
       /\ \A j \in 1..Len(b) : b[j] \in AsciiDigits
       /\ b[1] = "0" => \A j \in 1..Len(b) : b[j] \in OctDigits

\* the parts of a decimal fraction: n1 digits, a point and n2 digits, an
\* exponent of n3 digits that start at position es
TclParts(b) ==
    LET n1 == CharRun(b, 1, AsciiDigits)
        hasPoint == Len(b) > n1 /\ b[n1 + 1] = "."
        n2 == IF hasPoint THEN CharRun(b, n1 + 2, AsciiDigits) ELSE 0
        m == n1 + (IF hasPoint THEN 1 + n2 ELSE 0)
        hasExp == Len(b) > m /\ b[m + 1] \in {"e", "E"}
        signed == hasExp /\ Len(b) > m + 1 /\ b[m + 2] \in {"+", "-"}
        es == IF signed THEN m + 3 ELSE m + 2
        n3 == IF hasExp THEN CharRun(b, es, AsciiDigits) ELSE 0
    IN [n1 |-> n1, hasPoint |-> hasPoint, n2 |-> n2, m |-> m,
        hasExp |-> hasExp, es |-> es, n3 |-> n3,
        negExp |-> signed /\ b[m + 2] = "-"]

\* a decimal number with a point or an exponent
TclFraction(b) ==
    LET p == TclParts(b)
    IN /\ p.n1 + p.n2 >= 1
       /\ p.hasPoint \/ p.hasExp
       /\ IF p.hasExp THEN p.n3 >= 1 /\ p.es + p.n3 - 1 = Len(b)
          ELSE p.m = Len(b)

Lower(c) ==
    CASE c = "I" -> "i" [] c = "N" -> "n" [] c = "F" -> "f" [] c = "T" -> "t"
      [] c = "Y" -> "y" [] OTHER -> c

TclInf(b) ==
    [i \in 1..Len(b) |-> Lower(b[i])]
        \in {<<"i", "n", "f">>, <<"i", "n", "f", "i", "n", "i", "t", "y">>}

\* Tcl reads the str as a number: getdouble returns
TclNumber(s) ==
    LET b == TclBody(s) IN TclInteger(b) \/ TclFraction(b) \/ TclInf(b)

\* s without its leading zeros
RECURSIVE NoLeadingZeros(_)
NoLeadingZeros(s) ==
    IF s # <<>> /\ s[1] = "0" THEN NoLeadingZeros(Tail(s)) ELSE s

\* s without its trailing zeros
NoTrailingZeros(s) ==
    LET n == CHOOSE k \in 0..Len(s) :
                 /\ k = 0 \/ s[k] # "0"
                 /\ \A j \in (k + 1)..Len(s) : s[j] = "0"
    IN SubSeq(s, 1, n)

\* a >= b for two sequences of digits of the same length
DigitsGE(a, b) ==
    LET d == CHOOSE j \in 1..(Len(a) + 1) :
                 /\ j = Len(a) + 1 \/ a[j] # b[j]
                 /\ \A k \in 1..(j - 1) : a[k] = b[k]
    IN d = Len(a) + 1 \/ DigitValue(a[d]) > DigitValue(b[d])

\* the value of a digit of a radix up to 16
HexLower ==
    <<"0", "1", "2", "3", "4", "5", "6", "7", "8", "9", "a", "b", "c", "d",
      "e", "f">>
HexUpper ==
    <<"0", "1", "2", "3", "4", "5", "6", "7", "8", "9", "A", "B", "C", "D",
      "E", "F">>
HexValue(c) == (CHOOSE i \in 1..16 : c \in {HexLower[i], HexUpper[i]}) - 1

\* bit k (0 the most significant) of a digit of value v written with w bits
Bit(v, k, w) == (v \div (2 ^ (w - 1 - k))) % 2

\* the bits of a string of digits of radix 2^w, most significant first
Bits(ds, w) ==
    [i \in 1..(w * Len(ds)) |->
        Bit(HexValue(ds[((i - 1) \div w) + 1]), (i - 1) % w, w)]

\* str() of an int raises ValueError from 10^4300 on (l.188).  10^4300 has
\* 14285 bits; in hexadecimal it is the 2497 digits below followed by 1075
\* zeros.
IntStrLimitBits == 14285
IntStrLimitHex ==
    <<"1", "3", "9", "2", "b", "d", "7", "c", "2", "a", "1", "a", "a", "8",
      "4", "a", "7", "2", "e", "2", "0", "5", "6", "d", "3", "b", "1", "7",
      "f", "0", "1", "c", "b", "0", "8", "8", "0", "0", "b", "8", "2", "3",
      "8", "b", "f", "7", "c", "e", "6", "8", "d", "f", "9", "1", "0", "1",
      "2", "d", "3", "7", "2", "4", "8", "b", "a", "8", "8", "2", "8", "0",
      "e", "d", "1", "3", "3", "5", "2", "1", "8", "9", "6", "f", "4", "b",
      "b", "e", "4", "4", "7", "7", "1", "7", "3", "d", "7", "7", "9", "8",
      "3", "e", "a", "0", "2", "8", "1", "4", "8", "a", "6", "c", "6", "8",
      "5", "6", "0", "c", "5", "5", "1", "7", "4", "c", "8", "e", "4", "2",
      "6", "4", "3", "6", "b", "f", "2", "5", "3", "f", "0", "7", "6", "d",
      "5", "e", "8", "e", "5", "5", "2", "6", "2", "5", "6", "c", "2", "4",
      "e", "1", "e", "3", "1", "e", "7", "3", "f", "4", "9", "0", "f", "6",
      "0", "8", "6", "9", "f", "1", "1", "d", "c", "2", "4", "0", "2", "6",
      "7", "1", "a", "6", "b", "6", "0", "c", "8", "b", "3", "a", "d", "d",
      "0", "f", "2", "8", "7", "1", "6", "b", "7", "8", "a", "8", "5", "b",
      "c", "7", "1", "e", "b", "7", "b", "c", "6", "f", "c", "a", "2", "6",
      "2", "8", "4", "e", "8", "c", "6", "e", "1", "0", "9", "c", "f", "c",
      "f", "b", "d", "e", "3", "f", "2", "0", "5", "a", "6", "e", "3", "7",
      "b", "a", "d", "5", "7", "b", "1", "c", "6", "b", "5", "9", "6", "1",
      "f", "8", "d", "1", "3", "4", "8", "a", "2", "a", "7", "e", "0", "0",
      "e", "e", "a", "5", "5", "d", "a", "8", "d", "b", "b", "9", "a", "d",
      "d", "b", "2", "e", "7", "3", "7", "e", "5", "3", "2", "7", "1", "4",
      "0", "0", "7", "7", "a", "6", "d", "3", "b", "d", "9", "4", "f", "6",
      "b", "d", "b", "9", "9", "2", "a", "0", "b", "a", "b", "5", "a", "2",
      "2", "c", "2", "b", "c", "b", "e", "c", "2", "a", "6", "e", "5", "6",
      "c", "a", "2", "4", "a", "d", "b", "2", "0", "5", "5", "3", "5", "7",
      "7", "5", "5", "f", "6", "f", "3", "a", "b", "8", "3", "0", "8", "1",
      "e", "3", "e", "9", "1", "b", "b", "6", "4", "6", "9", "4", "2", "9",
      "8", "0", "8", "e", "9", "2", "b", "7", "5", "e", "2", "b", "9", "7",
      "7", "b", "e", "7", "c", "e", "c", "5", "9", "0", "7", "9", "9", "a",
      "4", "2", "8", "c", "b", "5", "5", "5", "e", "8", "b", "7", "b", "9",
      "2", "6", "3", "8", "e", "d", "2", "8", "0", "a", "c", "3", "7", "2",
      "6", "3", "4", "1", "8", "0", "8", "b", "d", "6", "a", "0", "8", "9",
      "e", "1", "1", "2", "8", "1", "3", "c", "c", "9", "e", "e", "f", "6",
      "2", "9", "e", "5", "9", "0", "8", "b", "b", "4", "3", "b", "1", "3",
      "2", "0", "8", "8", "6", "c", "8", "b", "3", "5", "1", "b", "6", "e",
      "6", "4", "8", "7", "b", "9", "2", "a", "6", "6", "4", "c", "c", "4",
      "6", "8", "7", "7", "5", "5", "5", "5", "a", "a", "9", "a", "5", "7",
      "0", "d", "c", "6", "0", "b", "7", "0", "d", "3", "9", "6", "5", "b",
      "f", "4", "6", "0", "c", "7", "4", "4", "2", "9", "4", "5", "c", "e",
      "8", "5", "a", "3", "e", "2", "4", "d", "d", "7", "6", "d", "9", "8",
      "d", "6", "d", "e", "a", "4", "8", "d", "1", "3", "7", "5", "4", "8",
      "5", "8", "3", "9", "1", "4", "c", "c", "d", "d", "4", "3", "0", "5",
      "d", "f", "d", "0", "3", "6", "8", "d", "4", "9", "0", "5", "5", "4",
      "9", "4", "3", "0", "6", "1", "6", "7", "e", "7", "a", "3", "0", "1",
      "1", "d", "0", "8", "0", "0", "8", "1", "a", "b", "a", "c", "e", "3",
      "7", "8", "1", "a", "e", "4", "3", "0", "f", "4", "9", "9", "2", "1",
      "4", "b", "8", "5", "2", "3", "e", "4", "1", "1", "4", "5", "b", "a",
      "2", "f", "a", "7", "1", "0", "9", "3", "3", "e", "0", "b", "6", "4",
      "5", "6", "b", "c", "0", "b", "1", "3", "4", "9", "b", "5", "f", "8",
      "9", "0", "5", "b", "e", "e", "a", "a", "3", "a", "8", "a", "a", "a",
      "f", "c", "1", "9", "6", "5", "5", "6", "b", "f", "5", "e", "d", "c",
      "9", "8", "1", "9", "e", "d", "d", "9", "6", "d", "1", "7", "c", "7",
      "6", "e", "5", "8", "4", "9", "7", "e", "6", "d", "7", "e", "b", "d",
      "c", "f", "b", "d", "b", "0", "5", "1", "5", "4", "f", "7", "a", "0",
      "4", "3", "6", "b", "7", "d", "c", "6", "a", "5", "f", "f", "9", "1",
      "1", "f", "b", "e", "f", "9", "6", "a", "3", "f", "b", "4", "5", "0",
      "3", "1", "c", "8", "2", "e", "1", "0", "a", "f", "e", "7", "7", "2",
      "9", "7", "8", "3", "c", "c", "c", "8", "a", "e", "3", "6", "a", "2",
      "f", "7", "f", "6", "0", "2", "a", "8", "c", "9", "a", "8", "1", "6",
      "2", "8", "4", "1", "d", "b", "2", "e", "9", "c", "d", "9", "f", "9",
      "b", "0", "3", "3", "5", "f", "6", "0", "5", "1", "a", "8", "4", "d",
      "4", "2", "c", "8", "0", "b", "9", "0", "4", "e", "5", "9", "9", "0",
      "d", "6", "5", "f", "6", "1", "e", "5", "f", "0", "7", "4", "8", "d",
      "9", "b", "4", "8", "7", "d", "4", "9", "2", "6", "9", "0", "4", "e",
      "8", "b", "6", "a", "8", "0", "6", "1", "e", "d", "5", "4", "a", "b",
      "4", "7", "f", "f", "8", "1", "8", "f", "c", "3", "a", "0", "8", "6",
      "2", "c", "3", "2", "7", "6", "2", "0", "9", "b", "3", "4", "9", "4",
      "1", "5", "c", "2", "5", "f", "5", "f", "e", "4", "c", "2", "3", "3",
      "0", "7", "f", "2", "4", "f", "9", "9", "9", "d", "1", "0", "9", "1",
      "4", "b", "0", "e", "a", "f", "7", "1", "f", "d", "c", "a", "9", "4",
      "3", "5", "c", "a", "d", "e", "e", "7", "d", "d", "1", "4", "e", "b",
      "a", "1", "2", "7", "9", "9", "6", "f", "2", "c", "f", "f", "b", "a",
      "d", "0", "d", "5", "f", "6", "3", "6", "8", "0", "b", "4", "2", "6",
      "0", "4", "a", "7", "d", "9", "a", "6", "d", "1", "b", "b", "b", "9",
      "d", "9", "f", "c", "3", "c", "f", "f", "2", "9", "3", "5", "0", "3",
      "0", "5", "c", "8", "f", "8", "0", "b", "4", "5", "f", "4", "e", "3",
      "8", "5", "6", "6", "7", "e", "5", "e", "a", "1", "c", "7", "2", "d",
      "b", "3", "0", "6", "1", "4", "b", "c", "b", "e", "e", "5", "6", "c",
      "5", "2", "3", "d", "3", "0", "f", "9", "a", "c", "f", "4", "5", "7",
      "f", "1", "d", "2", "b", "6", "f", "1", "c", "9", "d", "0", "5", "9",
      "b", "9", "b", "e", "5", "b", "c", "c", "4", "f", "1", "e", "9", "8",
      "e", "7", "a", "e", "2", "7", "c", "d", "5", "4", "4", "7", "a", "5",
      "7", "a", "5", "1", "a", "e", "1", "e", "8", "1", "b", "c", "1", "9",
      "6", "5", "0", "5", "8", "f", "d", "2", "a", "f", "4", "a", "3", "f",
      "d", "2", "1", "f", "3", "4", "e", "1", "d", "8", "d", "d", "e", "0",
      "6", "d", "6", "2", "c", "4", "4", "5", "d", "c", "5", "0", "8", "2",
      "6", "0", "a", "b", "0", "f", "a", "2", "b", "4", "3", "0", "6", "b",
      "4", "e", "c", "e", "c", "0", "5", "1", "3", "1", "2", "4", "4", "0",
      "2", "c", "2", "c", "9", "f", "d", "2", "6", "1", "3", "f", "6", "d",
      "5", "8", "b", "c", "e", "e", "9", "c", "1", "f", "0", "8", "8", "9",
      "0", "9", "c", "2", "4", "6", "b", "6", "0", "d", "9", "a", "4", "6",
      "2", "9", "a", "7", "c", "9", "4", "1", "b", "1", "5", "e", "7", "8",
      "f", "5", "b", "b", "9", "c", "7", "c", "f", "3", "6", "0", "5", "f",
      "3", "c", "2", "a", "4", "7", "8", "6", "e", "d", "d", "c", "a", "f",
      "3", "1", "9", "7", "b", "b", "1", "9", "8", "a", "d", "5", "a", "6",
      "8", "e", "2", "b", "e", "0", "f", "5", "e", "2", "f", "b", "b", "1",
      "9", "a", "d", "1", "e", "0", "e", "5", "5", "d", "2", "2", "9", "1",
      "3", "b", "2", "4", "b", "b", "4", "6", "c", "c", "d", "b", "3", "4",
      "9", "4", "3", "b", "3", "1", "7", "a", "5", "9", "4", "c", "a", "a",
      "8", "a", "2", "2", "0", "4", "8", "d", "0", "b", "e", "d", "e", "2",
      "d", "3", "3", "e", "f", "1", "f", "1", "3", "8", "4", "f", "7", "8",
      "c", "4", "6", "7", "2", "6", "4", "5", "5", "2", "c", "8", "c", "e",
      "f", "2", "4", "e", "5", "c", "8", "c", "a", "6", "3", "9", "4", "c",
      "6", "6", "6", "e", "e", "2", "f", "b", "6", "1", "c", "4", "4", "1",
      "d", "8", "6", "7", "b", "4", "f", "0", "c", "6", "9", "a", "8", "2",
      "8", "f", "2", "0", "1", "b", "6", "6", "8", "3", "b", "d", "9", "d",
      "7", "3", "3", "4", "7", "b", "0", "a", "f", "a", "8", "e", "0", "d",
      "1", "b", "d", "2", "6", "3", "5", "8", "7", "d", "9", "5", "f", "9",
      "3", "6", "5", "2", "8", "7", "8", "f", "6", "d", "8", "2", "e", "d",
      "3", "c", "e", "2", "c", "c", "d", "c", "b", "1", "6", "4", "c", "d",
      "9", "5", "a", "5", "f", "6", "8", "3", "4", "5", "f", "e", "9", "8",
      "b", "0", "2", "c", "5", "2", "5", "b", "5", "4", "3", "c", "8", "5",
      "4", "b", "5", "9", "c", "3", "c", "1", "f", "9", "0", "3", "3", "4",
      "9", "1", "8", "d", "6", "7", "9", "b", "5", "2", "b", "4", "a", "2",
      "e", "5", "6", "c", "d", "d", "e", "0", "e", "4", "2", "a", "f", "d",
      "7", "e", "7", "c", "e", "a", "4", "8", "3", "9", "e", "c", "1", "3",
      "c", "0", "9", "9", "a", "9", "7", "b", "2", "6", "0", "8", "d", "3",
      "5", "a", "8", "d", "6", "0", "d", "d", "d", "5", "3", "0", "e", "f",
      "a", "c", "1", "2", "3", "3", "a", "a", "2", "f", "9", "2", "f", "d",
      "6", "4", "c", "9", "b", "b", "6", "b", "9", "d", "b", "9", "e", "6",
      "1", "d", "d", "5", "6", "9", "6", "a", "e", "5", "1", "0", "6", "9",
      "8", "e", "0", "0", "7", "8", "8", "8", "0", "c", "3", "7", "b", "3",
      "b", "5", "5", "e", "e", "0", "f", "9", "6", "9", "1", "a", "3", "0",
      "7", "e", "d", "1", "f", "8", "d", "4", "9", "f", "8", "3", "8", "3",
      "d", "c", "a", "c", "6", "9", "9", "7", "1", "4", "d", "b", "d", "5",
      "e", "8", "d", "4", "1", "8", "8", "9", "0", "3", "f", "5", "2", "d",
      "1", "5", "2", "0", "2", "5", "7", "4", "9", "b", "4", "a", "6", "5",
      "d", "8", "3", "9", "1", "e", "e", "5", "1", "9", "f", "f", "5", "e",
      "4", "3", "4", "a", "7", "e", "9", "7", "c", "1", "d", "c", "8", "3",
      "8", "1", "9", "6", "7", "8", "b", "4", "e", "b", "3", "6", "1", "a",
      "c", "7", "d", "1", "2", "d", "2", "a", "6", "6", "5", "3", "f", "c",
      "d", "a", "7", "e", "5", "2", "0", "6", "5", "3", "e", "8", "d", "d",
      "0", "6", "5", "0", "6", "3", "f", "b", "1", "4", "1", "5", "e", "0",
      "3", "6", "c", "3", "a", "0", "c", "9", "3", "d", "2", "2", "4", "a",
      "0", "4", "a", "5", "8", "8", "6", "4", "8", "f", "e", "9", "3", "f",
      "f", "7", "6", "b", "f", "0", "c", "d", "b", "a", "6", "e", "f", "4",
      "2", "c", "1", "3", "b", "c", "1", "b", "9", "7", "6", "b", "e", "0",
      "1", "e", "f", "8", "f", "4", "8", "d", "3", "f", "7", "f", "f", "4",
      "b", "0", "0", "a", "3", "a", "0", "8", "6", "c", "5", "b", "6", "4",
      "5", "4", "e", "1", "6", "9", "9", "2", "7", "0", "6", "a", "f", "1",
      "c", "8", "7", "7", "7", "d", "5", "0", "f", "e", "0", "2", "7", "5",
      "d", "4", "5", "3", "b", "d", "2", "a", "2", "3", "e", "c", "b", "b",
      "1", "d", "f", "1", "0", "3", "2", "f", "e", "5", "6", "8", "7", "3",
      "8", "5", "f", "b", "3", "c", "d", "2", "6", "b", "4", "3", "2", "c",
      "8", "a", "f", "0", "d", "1", "7", "8", "1", "9", "4", "6", "7", "5",
      "0", "8", "f", "2", "f", "a", "7", "8", "f", "5", "f", "6", "a", "5",
      "6", "f", "9", "5", "5", "1", "8", "7", "5", "6", "0", "d", "8", "d",
      "4", "a", "a", "1", "f", "a", "4", "8", "0", "0", "6", "2", "f", "9",
      "f", "c", "a", "8", "6", "9", "2", "9", "c", "6", "2", "7", "4", "3",
      "2", "c", "a", "7", "0", "f", "5", "3", "b", "8", "0", "c", "4", "c",
      "d", "5", "2", "5", "3", "4", "1", "8", "f", "4", "8", "6", "7", "1",
      "4", "f", "5", "5", "f", "f", "d", "b", "6", "f", "c", "a", "c", "3",
      "c", "7", "d", "9", "6", "d", "2", "8", "8", "a", "e", "e", "a", "b",
      "a", "8", "6", "2", "6", "0", "d", "9", "d", "4", "b", "5", "3", "8",
      "2", "9", "b", "7", "e", "e", "f", "d", "c", "3", "5", "c", "5", "b",
      "5", "6", "d", "5", "b", "9", "9", "1", "6", "e", "9", "9", "2", "a",
      "4", "7", "7", "c", "4", "4", "b", "9", "d", "f", "5", "c", "c", "8",
      "c", "1", "f", "1", "1", "d", "c", "5", "2", "d", "3", "c", "6", "e",
      "e", "c", "3", "8", "7", "3", "6", "6", "6", "1", "5", "7", "8", "3",
      "2", "3", "9", "8", "3", "9", "a", "d", "4", "c", "5", "8", "6", "f",
      "2", "c", "e", "4", "c", "c", "5", "c", "6", "d", "e", "d", "0", "a",
      "b", "5", "c", "1", "2", "6", "e", "0", "b", "8", "f", "9", "1", "6",
      "c", "5", "6", "0", "2", "9", "5", "c", "3", "e", "d", "3", "3", "d",
      "c", "1", "b", "9", "8", "3", "f", "4", "0", "d", "4", "f", "3", "5",
      "7", "1", "6", "f", "b", "f", "5", "0", "b", "6", "e", "d", "4", "e",
      "0", "0", "8", "9", "5", "9", "7", "8", "d", "0", "8", "4", "e", "8",
      "2", "c", "d", "e", "6", "a", "4", "d", "1", "9", "2", "0", "a", "2",
      "0", "0", "c", "4", "d", "c", "b", "8", "b", "e", "e", "c", "c", "8",
      "2", "a", "e", "c", "8", "c", "3", "e", "5", "b", "a", "c", "5", "4",
      "f", "3", "b", "3", "9", "d", "d", "b", "a", "1", "a", "a", "2", "9",
      "6", "b", "0", "4", "a", "e", "c", "f", "f", "3", "a", "1", "4", "f",
      "6", "5", "8", "1", "3", "0", "5", "1", "3", "9", "3", "1", "a", "8",
      "a", "0", "f", "3", "2", "5", "3", "8", "6", "7", "8", "2", "c", "7",
      "a", "c", "5", "e", "f", "8", "f", "0", "e", "3", "f", "8", "9", "9",
      "1", "a", "7", "9", "f", "f", "5", "d", "4", "7", "0", "1", "e", "9",
      "6", "c", "a", "0", "3", "d", "8", "8", "4", "a", "c", "5", "d", "2",
      "4", "3", "4", "8", "8", "a", "7", "6", "9", "a", "4", "9", "6", "7",
      "1", "7", "7", "5", "1">>

\* bit i (1 the most significant) of 10^4300
IntStrLimitBit(i) ==
    LET pad == 4 - (IntStrLimitBits % 4)
        h == ((i + pad - 1) \div 4) + 1
    IN IF h > Len(IntStrLimitHex) THEN 0
       ELSE Bit(HexValue(IntStrLimitHex[h]), (i + pad - 1) % 4, 4)

\* the number with these bits is 10^4300 or more
AtLeastIntStrLimit(bits) ==
    LET z == CharRun(bits, 1, {0})
        n == Len(bits) - z
        d == CHOOSE j \in 1..(n + 1) :
                 /\ j = n + 1 \/ bits[z + j] # IntStrLimitBit(j)
                 /\ \A k \in 1..(j - 1) : bits[z + k] = IntStrLimitBit(k)
    IN \/ n > IntStrLimitBits
       \/ /\ n = IntStrLimitBits
          /\ d = n + 1 \/ bits[z + d] > IntStrLimitBit(d)

\* the bits of the integer b, which TclInteger accepts and which is not
\* written in decimal
RadixBits(b) ==
    IF b[2] \in {"x", "X"} THEN Bits(SubSeq(b, 3, Len(b)), 4)
    ELSE IF b[2] \in {"o", "O"} THEN Bits(SubSeq(b, 3, Len(b)), 3)
    ELSE IF b[2] \in {"b", "B"} THEN Bits(SubSeq(b, 3, Len(b)), 1)
    ELSE Bits(Tail(b), 3)

\* the integer b, which TclInteger accepts, is 10^4300 or more: getint
\* returns it and str() of it raises
IntStrOverLimit(b) ==
    IF b[1] # "0" THEN Len(b) > IntMaxStrDigits
    ELSE Len(b) > 1 /\ AtLeastIntStrLimit(RadixBits(b))

\* the doubles end below 2^1024 - 2^970, the least number that rounds to
\* inf: its 309 decimal digits, their number, the number of leading digits
\* it shares with the largest double, the number of significant digits up
\* to which Tcl rounds a decimal exactly, and the number of exponent digits
\* past which the exponent alone decides
FloatLimitDigits ==
    <<"1", "7", "9", "7", "6", "9", "3", "1", "3", "4", "8", "6", "2", "3",
      "1", "5", "8", "0", "7", "9", "3", "7", "2", "8", "9", "7", "1", "4",
      "0", "5", "3", "0", "3", "4", "1", "5", "0", "7", "9", "9", "3", "4",
      "1", "3", "2", "7", "1", "0", "0", "3", "7", "8", "2", "6", "9", "3",
      "6", "1", "7", "3", "7", "7", "8", "9", "8", "0", "4", "4", "4", "9",
      "6", "8", "2", "9", "2", "7", "6", "4", "7", "5", "0", "9", "4", "6",
      "6", "4", "9", "0", "1", "7", "9", "7", "7", "5", "8", "7", "2", "0",
      "7", "0", "9", "6", "3", "3", "0", "2", "8", "6", "4", "1", "6", "6",
      "9", "2", "8", "8", "7", "9", "1", "0", "9", "4", "6", "5", "5", "5",
      "5", "4", "7", "8", "5", "1", "9", "4", "0", "4", "0", "2", "6", "3",
      "0", "6", "5", "7", "4", "8", "8", "6", "7", "1", "5", "0", "5", "8",
      "2", "0", "6", "8", "1", "9", "0", "8", "9", "0", "2", "0", "0", "0",
      "7", "0", "8", "3", "8", "3", "6", "7", "6", "2", "7", "3", "8", "5",
      "4", "8", "4", "5", "8", "1", "7", "7", "1", "1", "5", "3", "1", "7",
      "6", "4", "4", "7", "5", "7", "3", "0", "2", "7", "0", "0", "6", "9",
      "8", "5", "5", "5", "7", "1", "3", "6", "6", "9", "5", "9", "6", "2",
      "2", "8", "4", "2", "9", "1", "4", "8", "1", "9", "8", "6", "0", "8",
      "3", "4", "9", "3", "6", "4", "7", "5", "2", "9", "2", "7", "1", "9",
      "0", "7", "4", "1", "6", "8", "4", "4", "4", "3", "6", "5", "5", "1",
      "0", "7", "0", "4", "3", "4", "2", "7", "1", "1", "5", "5", "9", "6",
      "9", "9", "5", "0", "8", "0", "9", "3", "0", "4", "2", "8", "8", "0",
      "1", "7", "7", "9", "0", "4", "1", "7", "4", "4", "9", "7", "7", "9",
      "2">>
DoubleMaxExp == 309
DoubleMaxShared == 16
TclExactDigits == 17
ExpDigitsMax == 9

\* the significant digits of the decimal fraction b and the position of its
\* decimal point after them: the value is 0.sig * 10^pos
TclDecimal(b) ==
    LET p == TclParts(b)
        all == SubSeq(b, 1, p.n1)
                  \o (IF p.hasPoint THEN SubSeq(b, p.n1 + 2, p.n1 + 1 + p.n2)
                      ELSE <<>>)
        sig == NoLeadingZeros(all)
        ex == NoLeadingZeros(SubSeq(b, p.es, p.es + p.n3 - 1))
    IN [sig |-> sig,
        longExp |-> Len(ex) > ExpDigitsMax,
        negExp |-> p.negExp,
        pos |-> IF Len(ex) > ExpDigitsMax THEN 0
                ELSE p.n1 - (Len(all) - Len(sig))
                        + (IF p.negExp THEN 0 - IntValue(ex) ELSE IntValue(ex))]

\* s followed by zeros up to the length n
ZeroPadded(s, n) == [i \in 1..n |-> IF i <= Len(s) THEN s[i] ELSE "0"]

\* the longer of two lengths
Longer(m, n) == IF m > n THEN m ELSE n

\* the decimal d is 2^1024 - 2^970 or more: it is read as inf
TclOverflows(d) ==
    /\ d.sig # <<>>
    /\ IF d.longExp THEN ~d.negExp
       ELSE \/ d.pos > DoubleMaxExp
            \/ /\ d.pos = DoubleMaxExp
               /\ DigitsGE(ZeroPadded(d.sig, Longer(Len(d.sig),
                                                    Len(FloatLimitDigits))),
                           ZeroPadded(FloatLimitDigits,
                                      Longer(Len(d.sig),
                                             Len(FloatLimitDigits))))

\* the decimal d is less than that, shares the first 16 digits of the
\* largest double and is written with more than 17 significant digits:
\* Tcl's first approximation of it, made in floating point, may already be
\* inf, and then Tcl reads inf; which of the two depends on the further
\* digits and on the arithmetic of the build
TclNearOverflow(d) ==
    /\ ~d.longExp
    /\ d.pos = DoubleMaxExp
    /\ Len(NoTrailingZeros(d.sig)) > TclExactDigits
    /\ SubSeq(d.sig, 1, DoubleMaxShared)
           = SubSeq(FloatLimitDigits, 1, DoubleMaxShared)
    /\ ~TclOverflows(d)

\* int(getdouble(b)) for a decimal fraction b, by the ways it can end
int_getdouble(d) ==
    IF TclOverflows(d) THEN {"raises"}
    ELSE IF TclNearOverflow(d) THEN {"raises", "returns"}
    ELSE {"returns"}

\* the long v is 2^1024 - 2^970 or more in size: float() of it raises
\* OverflowError
FloatOverflows(v) ==
    \/ Len(v.digits) > Len(FloatLimitDigits)
    \/ /\ Len(v.digits) = Len(FloatLimitDigits)
       /\ DigitsGE(v.digits, FloatLimitDigits)

\* str(tk.IntVar(value=v).get()) (l.183, l.188), by the ways it can end.
\* get() is getint, and int(getdouble) after a TypeError or TclError.  It
\* raises for a list or a dict (TypeError, TclError), for a str that is no
\* number (TclError), for a str read as inf and for a float inf or nan
\* (OverflowError, ValueError out of int()); str() raises for an integer of
\* more than 4300 digits (ValueError).
IntVar_get(v) ==
    CASE v.type \in {"list", "dict"} -> {"raises"}
      [] v.type = "float" ->
             IF "nonfinite" \in DOMAIN v THEN {"raises"} ELSE {"returns"}
      [] v.type = "str" ->
             LET b == TclBody(v.str)
             IN IF TclInteger(b)
                THEN IF IntStrOverLimit(b) THEN {"raises"} ELSE {"returns"}
                ELSE IF TclFraction(b) THEN int_getdouble(TclDecimal(b))
                ELSE {"raises"}
      [] OTHER -> {"returns"}

\* f"{tk.DoubleVar(value=v).get():.1f}" (l.197, l.202), by the ways it can
\* end.  get() is getdouble: it raises for a list or a dict, for a str that
\* is no number (TclError), and for an int too large for a float
\* (OverflowError).
DoubleVar_get(v) ==
    CASE v.type \in {"list", "dict"} -> {"raises"}
      [] v.type = "str" ->
             IF TclNumber(v.str) THEN {"returns"} ELSE {"raises"}
      [] v.type = "long" ->
             IF FloatOverflows(v) THEN {"raises"} ELSE {"returns"}
      [] OTHER -> {"returns"}

\* the ways two statements in turn can end, given those of each
InTurn(first, second) ==
    {o \in {"raises", "returns"} :
        IF o = "raises" THEN "raises" \in first \cup second
        ELSE "returns" \in first \cap second}

\* create_widgets out of __init__, by the ways it can end.  It raises in
\* create_reading_settings: self.settings.get(...) on anything that is no
\* dict (AttributeError), then the variable made from font_size (l.188),
\* then the one made from line_spacing (l.202).
create_widgets(s) ==
    IF s.type # "dict" THEN {"raises"}
    ELSE InTurn(IF KeyFontSize \in DOMAIN s.items
                THEN IntVar_get(s.items[KeyFontSize])
                ELSE {"returns"},
                IF KeyLineSpacing \in DOMAIN s.items
                THEN DoubleVar_get(s.items[KeyLineSpacing])
                ELSE {"returns"})

(***************************************************************************)
(* The novel directory and the library scan.                               *)
(***************************************************************************)
\* a file of the directory: its name, how its bytes decode, and the text
\* they decode to.  enc is "utf8", "gbk" (not UTF-8, but GBK), "undecodable"
\* (neither) or "unreadable" (open raises OSError)
File(stem, suffix, enc, text) ==
    [name |-> [stem |-> stem, suffix |-> suffix], enc |-> enc, text |-> text]

Heading(n, ws, t) == <<"U+7B2C", n, "U+7AE0">> \o ws \o <<t>>

TextA3 ==
    Join(<< <<"A">>, Heading("1", <<" ">>, "a"), <<"x">>,
            Heading("2", <<>>, "b"), <<"y">>, Heading("3", <<" ">>, "c") >>)
TextA1 == Join(<< <<"A">>, AuthorLabel \o <<"b">>, Heading("1", <<" ">>, "a") >>)
TextB0 == Join(<< <<"B">>, <<"x">> >>)
Text7 == Join(<< <<"0", "7">>, Heading("1", <<" ">>, "a") >>)

\* the files there are
FilePool ==
    << File("a", ".txt", "utf8", TextA3),
       File("b", ".txt", "gbk", TextA1),
       File("d", ".txt", "undecodable", <<>>),
       File("c", ".txt", "utf8", TextB0),
       File("e", ".txt", "unreadable", <<>>),
       File("n", ".txt", "utf8", Text7),
       File("g", ".txt", "utf8", LongHeadingText),
       File("f", ".md", "utf8", TextA1) >>

\* the names of the files of S in each order: glob yields the files in the order of the
\* file system, which is none the program chooses
PickFiles(S) ==
    {[k \in 1..Cardinality(S) |-> FilePool[q[k]].name] :
        q \in {r \in [1..Cardinality(S) -> S] :
                  \A i, j \in 1..Cardinality(S) : i # j => r[i] # r[j]}}

\* the directory listings, by file name: at most MaxFiles files, neighbours
\* in the pool, in any order
Listings ==
    UNION {PickFiles(w[1]..(w[1] + w[2] - 1)) :
              w \in {x \in (1..Len(FilePool)) \X (0..MaxFiles) :
                        x[1] + x[2] - 1 <= Len(FilePool)}}

\* the file of that name, and the files of a listing
read_file(name) ==
    FilePool[CHOOSE i \in 1..Len(FilePool) : FilePool[i].name = name]

Files(names) == [k \in 1..Len(names) |-> read_file(names[k])]

\* novel_dir.glob("*.txt")
glob_txt(files) ==
    LET IsTxt(f) == f.name.suffix = ".txt" IN SelectSeq(files, IsTxt)

\* parse_novel_file: raised (an exception other than UnicodeDecodeError left
\* the first open, or int() raised in the chapter loop), or the value
\* returned: <<>> for None, else <<novel>>
parse_novel_file(file) ==
    IF file.enc = "unreadable" THEN [raised |-> TRUE, value |-> <<>>]
    ELSE IF file.enc = "undecodable" THEN [raised |-> FALSE, value |-> <<>>]
    ELSE parse_content(file.text)

\* self.novels[key] = novel on a dict kept in insertion order
NovelsSet(d, key, novel) ==
    IF \E i \in 1..Len(d) : d[i].key = key
    THEN [i \in 1..Len(d) |->
             IF d[i].key = key THEN [key |-> key, novel |-> novel] ELSE d[i]]
    ELSE Append(d, [key |-> key, novel |-> novel])

\* the loop of load_novels over txt_files[i..], with a break on the first
\* file that fails in the place of the except clause
RECURSIVE ScanStopAtFailure(_, _, _)
ScanStopAtFailure(files, i, acc) ==
    IF i > Len(files) THEN acc
    ELSE LET r == parse_novel_file(files[i])
         IN IF r.raised \/ r.value = <<>> THEN acc
            ELSE ScanStopAtFailure(files, i + 1,
                     [novels |-> NovelsSet(acc.novels, files[i].name, r.value[1]),
                      tree |-> Append(acc.tree,
                                  [title |-> r.value[1].title,
                                   author |-> r.value[1].author])])

\* the loop of load_novels over txt_files[i..]: acc is [novels, tree]
RECURSIVE ScanLoop(_, _, _)
ScanLoop(files, i, acc) ==
    IF i > Len(files) THEN acc
    ELSE LET r == parse_novel_file(files[i])
         IN IF r.raised \/ r.value = <<>>
            THEN ScanLoop(files, i + 1, acc)
            ELSE ScanLoop(files, i + 1,
                     [novels |-> NovelsSet(acc.novels, files[i].name, r.value[1]),
                      tree |-> Append(acc.tree,
                                  [title |-> r.value[1].title,
                                   author |-> r.value[1].author])])

ScanFiles(files) == ScanLoop(files, 1, [novels |-> <<>>, tree |-> <<>>])

\* load_novels: the directory after it, self.novels and the tree rows
load_novels(dir) ==
    IF dir = <<>>
    THEN [dir |-> << <<>> >>, novels |-> <<>>, tree |-> <<>>]
    ELSE LET r == ScanFiles(glob_txt(Files(dir[1])))
         IN [dir |-> dir, novels |-> r.novels, tree |-> r.tree]

(***************************************************************************)
(* Chapter navigation and the progress store.                              *)
(***************************************************************************)
NoCombo == [values |-> <<>>, current |-> -1]

ChapterCount(cn) == IF cn = <<>> THEN 0 ELSE Len(cn[1].chapters)

\* load_chapter_list: the combo box after it
load_chapter_list(cn, combo) ==
    IF cn = <<>> THEN combo
    ELSE LET titles == Titles(cn[1].chapters)
         IN [values |-> titles,
             current |-> IF titles # <<>> THEN 0 ELSE -1]

\* the guard of load_chapter: the index is one of the current novel
CanLoad(cn, index) == cn # <<>> /\ index >= 0 /\ index < ChapterCount(cn)

\* the entry save_reading_progress stores
ProgressEntry(chapter, now) == [chapter |-> chapter, timestamp |-> now]

\* save_reading_progress: [raised, progress, file] after it.  The store
\* into anything that is no dict raises TypeError before the file is opened.
save_reading_progress(cn, chapter, progress, file, now) ==
    IF cn = <<>>
    THEN [raised |-> FALSE, progress |-> progress, file |-> file]
    ELSE IF progress.type # "dict"
    THEN [raised |-> TRUE, progress |-> progress, file |-> file]
    ELSE LET p == Dict(DictSet(progress.items, cn[1].title,
                               ProgressEntry(chapter, now)))
         IN [raised |-> FALSE, progress |-> p, file |-> json_dump(file, p)]

\* load_chapter(index) as an action on the navigation state; `chapter` is
\* self.current_chapter when the method is entered
load_chapter(cn, chapter, index, combo, now) ==
    IF ~CanLoad(cn, index)
    THEN /\ current_chapter' = chapter
         /\ chapter_combo' = combo
         /\ UNCHANGED <<reading_progress, progress_file>>
    ELSE LET s == save_reading_progress(cn, index, reading_progress,
                                        progress_file, now)
         IN /\ current_chapter' = index
            /\ chapter_combo' = [combo EXCEPT !.current = index]
            /\ reading_progress' = s.progress
            /\ progress_file' = s.file

\* next_target that goes round to the first chapter after the last
NextTargetWraps(cn, chapter) ==
    IF cn # <<>> /\ ChapterCount(cn) > 0
    THEN (chapter + 1) % ChapterCount(cn)
    ELSE -1

\* the index prev_chapter and next_chapter hand to load_chapter, -1 when the
\* guard of the button fails
prev_target(chapter) == IF chapter > 0 THEN chapter - 1 ELSE -1

next_target(cn, chapter) ==
    IF cn # <<>> /\ chapter < ChapterCount(cn) - 1 THEN chapter + 1 ELSE -1

\* the white space int() strips: that of str.strip() but for U+001C..U+001F
\* (int() maps the non-ASCII white space to blanks and then skips what C's
\* isspace skips)
IntSpace == Whitespace \ {"U+001C", "U+001D", "U+001E", "U+001F"}

\* int(s) of a str succeeds: white space around an optional sign and decimal
\* digits, single underscores between digits, no more digits than the limit
int_accepts(s) ==
    LET t == Trim(s, IntSpace)
        u == IF t # <<>> /\ t[1] \in {"+", "-"} THEN Tail(t) ELSE t
    IN /\ u # <<>>
       /\ u[1] \in Digits
       /\ u[Len(u)] \in Digits
       /\ \A j \in 1..Len(u) : u[j] \in Digits \cup {"_"}
       /\ \A j \in 1..(Len(u) - 1) : ~(u[j] = "_" /\ u[j + 1] = "_")
       /\ Cardinality({j \in 1..Len(u) : u[j] \in Digits}) <= IntMaxStrDigits

\* item['values'][0] of a tree row: ttk hands back an int for a title that
\* int() accepts, and an int equals no title; <<>> stands for such a value
tree_value(title) == IF int_accepts(title) THEN <<>> ELSE <<title>>

\* the first novel of self.novels with the title of the selected row
FindByTitle(d, title) ==
    LET S == {i \in 1..Len(d) : d[i].novel.title = title}
    IN IF S = {} THEN <<>> ELSE <<d[Nth(S, 1)].novel>>

(***************************************************************************)
(* The session: NovelReaderApp.__init__, main, and the handlers.           *)
(***************************************************************************)
TitleA == <<"A">>
TitleX == <<"X">>
KeyTheme == <<"t", "h", "e", "m", "e">>
KeyChapter == <<"c", "h", "a", "p", "t", "e", "r">>
KeyNote == <<"n", "o", "t", "e">>

FontSizeDoc(v) == JsonFile(Dict([k \in {KeyFontSize} |-> v]))

\* the documents a session may find at startup; at most one of the two is
\* other than the plain one
PlainSettings == FontSizeDoc(JInt(14))
\* an entry with a note that UTF-8 cannot encode
NotedEntry ==
    Dict([k \in {KeyChapter, KeyNote} |->
             IF k = KeyChapter THEN JInt(2) ELSE JStr(<<"U+DFFF">>)])

PlainProgress == JsonFile(Dict([k \in {TitleX} |-> ProgressEntry(2, 0)]))

\* numbers at the edges of what the two variables read: 10^400; a decimal
\* of 18 digits just past the largest double, and one just short of it
\* that Tcl may read as inf
TenTo400 == [i \in 1..401 |-> IF i = 1 THEN "1" ELSE "0"]
PastDoubleMax ==
    <<"1", ".", "7", "9", "7", "6", "9", "3", "1", "3", "4", "8", "6", "2",
      "3", "1", "5", "8", "1", "e", "3", "0", "8">>
NearDoubleMax ==
    <<"1", "7", "9", "7", "6", "9", "3", "1", "3", "4", "8", "6", "2", "3",
      "1", "5", "7", "1", "e", "2", "9", "1">>

SettingsFiles ==
    { NoFile("missing"), NoFile("unreadable"), NoFile("malformed"),
      JsonFile(EmptyList), PlainSettings,
      FontSizeDoc(JInt(99)),
      FontSizeDoc(JStr(<<"b", "i", "g">>)),
      FontSizeDoc(JStr(<<"0", "x", "1", "0">>)),
      FontSizeDoc(JStr(LongNumber)),
      FontSizeDoc(JStr(PastDoubleMax)),
      FontSizeDoc(JStr(NearDoubleMax)),
      FontSizeDoc(JNonFinite("inf")),
      FontSizeDoc(JNonFinite("nan")),
      JsonFile(Dict([k \in {KeyLineSpacing} |-> JStr(<<"i", "n", "f">>)])),
      JsonFile(Dict([k \in {KeyLineSpacing} |-> JLong(FALSE, TenTo400)])),
      JsonFile(Dict([k \in {KeyFontSize, KeyTheme} |->
                        IF k = KeyFontSize THEN JInt(14)
                        ELSE JStr(<<"U+D800">>)])),
      JsonFile(Dict([k \in {KeyFontSize, KeyTheme} |->
                        IF k = KeyFontSize THEN JInt(14)
                        ELSE List(<<JStr(<<"U+D800">>)>>)])) }

ProgressFiles ==
    { NoFile("missing"), NoFile("unreadable"), NoFile("malformed"),
      JsonFile(EmptyList), PlainProgress,
      JsonFile(Dict([k \in {TitleA, TitleX} |->
                        IF k = TitleA THEN ProgressEntry(1, 0)
                        ELSE ProgressEntry(2, 0)])),
      JsonFile(Dict([k \in {<<"U+D800">>} |-> ProgressEntry(2, 0)])),
      JsonFile(Dict([k \in {TitleX} |-> NotedEntry])) }

NovelDirs == {<<>>} \cup {<<ls>> : ls \in Listings}

\* load_novels on each of them
Scanned == [dir \in NovelDirs |-> load_novels(dir)]

Times == 1..MaxTime

Init ==
    /\ file_content = <<>>
    /\ parsed = <<>>
    /\ pc = "start"
    /\ dialog = "none"
    /\ settings_file \in SettingsFiles
    /\ progress_file \in ProgressFiles
    /\ settings_file = PlainSettings \/ progress_file = PlainProgress
    /\ novel_dir \in NovelDirs
    /\ settings = EmptyDict
    /\ reading_progress = EmptyDict
    /\ novels = <<>>
    /\ novel_tree = <<>>
    /\ current_novel = <<>>
    /\ current_chapter = 0
    /\ chapter_combo = NoCombo

\* NovelReaderApp.__init__: load_settings, create_widgets, load_novels
Construct ==
    /\ pc = "start"
    /\ settings' = load_settings(settings_file)
    /\ \E outcome \in create_widgets(settings') :
           IF outcome = "raises"
           THEN /\ pc' = "crashed"
                /\ UNCHANGED <<novel_dir, novels, novel_tree>>
           ELSE LET r == Scanned[novel_dir]
                IN /\ pc' = "constructed"
                   /\ novel_dir' = r.dir
                   /\ novels' = r.novels
                   /\ novel_tree' = r.tree
    /\ UNCHANGED <<parse_vars, dialog,
                   settings_file, progress_file, reading_progress,
                   current_novel, current_chapter, chapter_combo>>

\* main: app.load_reading_progress() before the main loop
LoadReadingProgress ==
    /\ pc = "constructed"
    /\ pc' = "running"
    /\ reading_progress' = load_reading_progress(progress_file)
    /\ UNCHANGED <<parse_vars, dialog, disk_vars, settings, novels, novel_tree,
                   current_novel, current_chapter, chapter_combo>>

\* the refresh button: load_novels, with `dir` what the directory holds when
\* the button is pressed
Refresh(dir) ==
    /\ pc = "running"
    /\ dialog = "none"
    /\ LET r == Scanned[dir]
       IN /\ novel_dir' = r.dir
          /\ novels' = r.novels
          /\ novel_tree' = r.tree
    /\ UNCHANGED <<parse_vars, dialog,
                   pc, settings_file, progress_file, settings,
                   reading_progress, current_novel, current_chapter,
                   chapter_combo>>

\* the menu entry open_novel_folder, up to the end of the handler or to the
\* message box: `dir` is what exists() finds when the entry is chosen.  A
\* directory that is there is handed to os.startfile; for one that is not,
\* messagebox.showinfo opens and the handler waits in it.
OpenNovelFolder(dir) ==
    /\ pc = "running"
    /\ dialog = "none"
    /\ novel_dir' = dir
    /\ dialog' = IF dir = <<>> THEN "folder" ELSE "none"
    /\ UNCHANGED <<parse_vars, pc, settings_file, progress_file, app_vars>>

\* the message box is dismissed: showinfo returns and the handler goes on to
\* novel_dir.mkdir(exist_ok=True)
DismissFolderDialog ==
    /\ pc = "running"
    /\ dialog = "folder"
    /\ dialog' = "none"
    /\ novel_dir' = IF novel_dir = <<>> THEN << <<>> >> ELSE novel_dir
    /\ UNCHANGED <<parse_vars, pc, settings_file, progress_file, app_vars>>

\* on_novel_select with row i of the tree selected
OnNovelSelect(i) ==
    /\ pc = "running"
    /\ dialog = "none"
    /\ i \in 1..Len(novel_tree)
    /\ LET title == tree_value(novel_tree[i].title)
           found == IF title = <<>> THEN <<>>
                    ELSE FindByTitle(novels, title[1])
       IN IF found = <<>>
          THEN UNCHANGED <<current_novel, current_chapter, chapter_combo,
                           reading_progress, progress_file>>
          ELSE /\ current_novel' = found
               /\ \E now \in Times :
                      load_chapter(found, 0, 0,
                                   load_chapter_list(found, chapter_combo), now)
    /\ UNCHANGED <<parse_vars, dialog, pc, settings_file, novel_dir, settings,
                   novels, novel_tree>>

\* on_chapter_change with entry i (from 0) of the combo box chosen
OnChapterChange(i) ==
    /\ pc = "running"
    /\ dialog = "none"
    /\ i \in 0..(Len(chapter_combo.values) - 1)
    /\ IF current_novel = <<>>
       THEN UNCHANGED <<current_chapter, chapter_combo, reading_progress,
                        progress_file>>
       ELSE \E now \in Times :
                load_chapter(current_novel, current_chapter, i,
                             [chapter_combo EXCEPT !.current = i], now)
    /\ UNCHANGED <<parse_vars, dialog, pc, settings_file, novel_dir, settings,
                   novels, novel_tree, current_novel>>

\* prev_chapter
PrevChapter ==
    /\ pc = "running"
    /\ dialog = "none"
    /\ \E now \in Times :
           load_chapter(current_novel, current_chapter,
                        prev_target(current_chapter),
                        chapter_combo, now)
    /\ UNCHANGED <<parse_vars, dialog, pc, settings_file, novel_dir, settings,
                   novels, novel_tree, current_novel>>

\* next_chapter
NextChapter ==
    /\ pc = "running"
    /\ dialog = "none"
    /\ \E now \in Times :
           load_chapter(current_novel, current_chapter,
                        next_target(current_novel, current_chapter),
                        chapter_combo, now)
    /\ UNCHANGED <<parse_vars, dialog, pc, settings_file, novel_dir, settings,
                   novels, novel_tree, current_novel>>

\* save_settings: the whole in-memory document is dumped to settings.json
save_settings(s, file) == json_dump(file, s)

\* the sliders: font size from 10 to 20, line spacing from 1.0 to 2.0.  The
\* callback receives the position as text, e.g. "15.5", modelled as a number
\* of tenths.
ScaleFrom == 10
ScaleTo == 20
ScaleValues == (ScaleFrom * 10)..(ScaleTo * 10)
LineScaleFrom == 10
LineScaleTo == 20
LineScaleValues == LineScaleFrom..LineScaleTo

\* the positions the sliders are moved to: 15.5 and 20.0; 1.7
FontPositions == {155, ScaleTo * 10} \cap ScaleValues
LinePositions == {17} \cap LineScaleValues

\* int(float(value)) for a value given in tenths: truncation
int_float(tenths) == tenths \div 10

\* update_font_size: the slider was moved to `value`
UpdateFontSize(value) ==
    /\ pc = "running"
    /\ dialog = "none"
    /\ settings' = Dict(DictSet(settings.items, KeyFontSize,
                                JInt(int_float(value))))
    /\ settings_file' = save_settings(settings', settings_file)
    /\ UNCHANGED <<parse_vars, dialog,
                   pc, progress_file, novel_dir, reading_progress,
                   novels, novel_tree, current_novel, current_chapter,
                   chapter_combo>>

\* update_line_spacing: the slider was moved to `value`
UpdateLineSpacing(value) ==
    /\ pc = "running"
    /\ dialog = "none"
    /\ settings' = Dict(DictSet(settings.items, KeyLineSpacing, JFloat(value)))
    /\ settings_file' = save_settings(settings', settings_file)
    /\ UNCHANGED <<parse_vars, dialog,
                   pc, progress_file, novel_dir, reading_progress,
                   novels, novel_tree, current_novel, current_chapter,
                   chapter_combo>>

\* reset_settings: the menu entry; `answer` is the reply to the question
\* box.  Nothing is done before the question and nothing after the closing
\* message, so a window closed during either box is on_closing before or
\* after this step.
ResetSettings(answer) ==
    /\ pc = "running"
    /\ dialog = "none"
    /\ IF answer
       THEN /\ settings' = EmptyDict
            /\ settings_file' = save_settings(settings', settings_file)
       ELSE UNCHANGED <<settings, settings_file>>
    /\ UNCHANGED <<parse_vars, dialog,
                   pc, progress_file, novel_dir, reading_progress,
                   novels, novel_tree, current_novel, current_chapter,
                   chapter_combo>>

\* on_closing: the window is closed or the exit entry chosen.  The settings
\* are saved, then the progress; the window is destroyed only when
\* save_reading_progress returns.  The message box of open_novel_folder
\* does not keep the window from being closed: it goes with the window,
\* showinfo raises TclError in the waiting handler, and mkdir is not run.
OnClosing ==
    /\ pc = "running"
    /\ settings_file' = save_settings(settings, settings_file)
    /\ \E now \in Times :
          LET r == save_reading_progress(current_novel, current_chapter,
                                         reading_progress, progress_file, now)
          IN /\ reading_progress' = r.progress
             /\ progress_file' = r.file
             /\ pc' = IF r.raised THEN "running" ELSE "closed"
             /\ dialog' = IF r.raised THEN dialog ELSE "none"
    /\ UNCHANGED <<parse_vars, novel_dir, settings, novels, novel_tree,
                   current_novel, current_chapter, chapter_combo>>

Next ==
    \/ Construct
    \/ LoadReadingProgress
    \/ \E dir \in NovelDirs : Refresh(dir)
    \/ \E dir \in {novel_dir, <<>>} : OpenNovelFolder(dir)
    \/ DismissFolderDialog
    \/ \E i \in 1..Len(novel_tree) : OnNovelSelect(i)
    \/ \E i \in 0..(Len(chapter_combo.values) - 1) : OnChapterChange(i)
    \/ PrevChapter
    \/ NextChapter
    \/ \E value \in FontPositions : UpdateFontSize(value)
    \/ \E value \in LinePositions : UpdateLineSpacing(value)
    \/ \E answer \in BOOLEAN : ResetSettings(answer)
    \/ OnClosing

Spec == Init /\ [][Next]_vars

(***************************************************************************)
(* What the claims about the parser speak of, stated apart from the        *)
(* parser's own operators.                                                 *)
(***************************************************************************)
\* the lines of a text file: a final newline ends the last line and opens
\* no further one, and the empty text has no line
FileLines(text) ==
    IF text = <<>> THEN <<>>
    ELSE IF text[Len(text)] = NL THEN split(SubSeq(text, 1, Len(text) - 1))
    ELSE split(text)

\* the text up to its first newline
FirstLineOf(text) ==
    LET n == CHOOSE k \in 0..Len(text) :
                 /\ \A j \in 1..k : text[j] # NL
                 /\ k < Len(text) => text[k + 1] = NL
    IN SubSeq(text, 1, n)

\* s is heading mark, digits, chapter mark, at least minWs characters of
\* whitespace and a non-empty title
HeadingForm(s, minWs) ==
    \E d \in 1..Len(s) : \E w \in minWs..Len(s) :
        /\ Len(s) >= d + w + 3
        /\ s[1] = "U+7B2C"
        /\ \A j \in 2..(d + 1) : s[j] \in Digits
        /\ s[d + 2] = "U+7AE0"
        /\ \A j \in (d + 3)..(d + w + 2) : IsSpace(s[j])

StrictHeading(line) == HeadingForm(strip(line), 1)
MatchedHeading(line) == chapter_pattern_match(strip(line)) # <<>>

\* lines[a..b], each followed by a newline
RECURSIVE ConcatLines(_, _, _)
ConcatLines(lines, a, b) ==
    IF a > b THEN <<>>
    ELSE lines[a] \o <<NL>> \o ConcatLines(lines, a + 1, b)

\* one chapter per heading line, in the order of the lines, holding the
\* lines strictly between its heading and the next heading or the end
ExpectedChapters(lines, IsHead(_)) ==
    LET H == {i \in 1..Len(lines) : IsHead(lines[i])}
        n == Cardinality(H)
    IN [k \in 1..n |->
          LET i == Nth(H, k)
              nxt == IF k < n THEN Nth(H, k + 1) ELSE Len(lines) + 1
              t == strip(lines[i])
          IN [title |-> t,
              content |-> ConcatLines(lines, i + 1, nxt - 1),
              number |-> IntValue(SubSeq(t, 2, DigitRun(t, 2) + 1))]]

ScenarioChapters ==
    << [title |-> <<"U+7B2C", "1", "U+7AE0", " ", "U+5F00", "U+7AEF">>,
        content |-> <<"H", "e", "l", "l", "o", NL>>,
        number |-> 1],
       [title |-> <<"U+7B2C", "2", "U+7AE0", " ", "U+8F6C", "U+6298">>,
        content |-> <<"W", "o", "r", "l", "d", NL>>,
        number |-> 2] >>

\* C7: parse yields the chapters in file order, each chapter's content
\* being exactly the lines strictly after its heading up to the next heading
\* or the end of the file, each followed by one newline; the scenario text
\* yields title "Title", author "Alice" and the two chapters with contents
\* "Hello\n" and "World\n".
C7_ChapterContents ==
    parsed # <<>> =>
        /\ parsed[1].chapters =
               ExpectedChapters(FileLines(file_content), MatchedHeading)
        /\ file_content = ScenarioText =>
               /\ parsed[1].title = <<"T", "i", "t", "l", "e">>
               /\ parsed[1].author = <<"A", "l", "i", "c", "e">>
               /\ parsed[1].chapters = ScenarioChapters

\* C8: the title is the first line of a non-empty text and the default
\* placeholder title for the empty text.
C8_TitleOrPlaceholder ==
    parsed # <<>> =>
        parsed[1].title = IF file_content = <<>> THEN DefaultTitle
                          ELSE FirstLineOf(file_content)

\* C9: the author is the exact suffix after the label on the first of the
\* first 10 lines that begins with the label, trimmed and otherwise
\* untouched; it is empty when no such line is among the first 10.
C9_AuthorExactSuffix ==
    parsed # <<>> =>
        LET lines == FileLines(file_content)
            L == {i \in 1..Len(lines) :
                     i <= 10 /\ startswith(lines[i], AuthorLabel)}
        IN parsed[1].author =
               IF L = {} THEN <<>>
               ELSE LET line == lines[Nth(L, 1)]
                    IN strip(SubSeq(line, Len(AuthorLabel) + 1, Len(line)))

\* C10: the chapters are opened by exactly the lines that, trimmed, are
\* heading mark, digits, chapter mark, whitespace and a title; a line with no
\* whitespace before the title opens none.
C10_HeadingNeedsWhitespace ==
    parsed # <<>> =>
        Titles(parsed[1].chapters) =
            Titles(ExpectedChapters(split(file_content), StrictHeading))

(***************************************************************************)
(* The claims about the session.                                           *)
(***************************************************************************)
Viewing == current_novel # <<>> /\ ChapterCount(current_novel) >= 1
LastIndex == ChapterCount(current_novel) - 1

\* C1: while a novel with at least one chapter is viewed the chapter index
\* stays within 0..count-1; previous at index 0 and next at the last index
\* leave it unchanged, and from an interior index next and previous move it
\* by exactly +1 and -1.
C1_IndexInRange ==
    /\ [](Viewing => current_chapter \in 0..LastIndex)
    /\ [][(Viewing /\ NextChapter) =>
              current_chapter' = IF current_chapter < LastIndex
                                 THEN current_chapter + 1
                                 ELSE current_chapter]_vars
    /\ [][(Viewing /\ PrevChapter) =>
              current_chapter' = IF current_chapter > 0
                                 THEN current_chapter - 1
                                 ELSE current_chapter]_vars

\* the last of three chapters is on view
C1_Witness ==
    /\ pc = "running"
    /\ Viewing
    /\ LastIndex = 2
    /\ current_chapter = LastIndex

\* C2: selecting row i of the novel list makes the novel parsed from the
\* file of that row the current novel, at chapter 0 when it has chapters,
\* also when two files have the same title.  (Row i of the tree and entry i
\* of the catalog are inserted together by the scan.)
C2_SelectsRowsNovel ==
    [][\A i \in 1..Len(novel_tree) :
          OnNovelSelect(i) =>
              /\ current_novel' = <<novels[i].novel>>
              /\ ChapterCount(current_novel') >= 1 => current_chapter' = 0]_vars

\* a catalog in which two files have the same title and differ
C2_Witness ==
    /\ pc = "running"
    /\ \E i, j \in 1..Len(novels) :
           /\ i < j
           /\ novels[i].novel.title = novels[j].novel.title
           /\ novels[i].novel # novels[j].novel
    /\ current_novel # <<>>

\* the progress store holds the chapter just entered under the title of the
\* current novel, in memory and, unless the file cannot be opened (a save
\* that fails is a silent no-op), on disk
ProgressWritten ==
    /\ reading_progress'.type = "dict"
    /\ current_novel'[1].title \in DOMAIN reading_progress'.items
    /\ reading_progress'.items[current_novel'[1].title].chapter
           = current_chapter'
    /\ IF progress_file.state = "unreadable"
       THEN progress_file' = progress_file
       ELSE progress_file' = JsonFile(reading_progress')

NoProgressWrite == UNCHANGED <<reading_progress, progress_file>>

\* C3: every transition into a chapter (a selection of a novel with
\* chapters, a next or previous that moves, a choice in the combo box) is
\* followed within the same handler by a progress write for the current
\* novel's title recording the chapter entered; a next or previous that does
\* not move and the selection of a novel without chapters write nothing.
C3_ProgressWriteOnEnter ==
    [][/\ \A i \in 1..Len(novel_tree) :
             OnNovelSelect(i) =>
                 IF ChapterCount(current_novel') >= 1
                 THEN current_chapter' = 0 /\ ProgressWritten
                 ELSE NoProgressWrite
       /\ \A i \in 0..(Len(chapter_combo.values) - 1) :
             (OnChapterChange(i) /\ Viewing) =>
                 current_chapter' = i /\ ProgressWritten
       /\ (NextChapter \/ PrevChapter) =>
             IF current_chapter' # current_chapter
             THEN ProgressWritten
             ELSE NoProgressWrite]_vars

\* C4: a progress write changes only the entry of the current novel's title:
\* every entry of the document the session started with, and of the loaded
\* mapping, stays there unchanged under every other title; the document
\* written holds the entry of the current title with the chapter on view.
C4_ProgressFrame ==
    [][(pc = "running" /\ reading_progress.type = "dict") =>
          /\ reading_progress'.type = "dict"
          /\ \A k \in DOMAIN reading_progress.items :
                 (current_novel' = <<>> \/ k # current_novel'[1].title) =>
                     /\ k \in DOMAIN reading_progress'.items
                     /\ reading_progress'.items[k] = reading_progress.items[k]
          /\ progress_file' # progress_file =>
                 /\ progress_file' = JsonFile(reading_progress')
                 /\ current_novel' # <<>>
                 /\ ProgressWritten
                 /\ \A k \in DOMAIN progress_file.value.items :
                        (progress_file.state = "json"
                            /\ progress_file.value.type = "dict"
                            /\ k # current_novel'[1].title) =>
                            /\ k \in DOMAIN progress_file'.value.items
                            /\ progress_file'.value.items[k]
                                   = progress_file.value.items[k]]_vars

\* the document found at startup held an entry under a title that UTF-8
\* cannot encode; after a write for A the mapping holds both entries and the
\* file holds no document
C4_Witness ==
    /\ pc = "running"
    /\ reading_progress.type = "dict"
    /\ DOMAIN reading_progress.items = {<<"U+D800">>, TitleA}
    /\ reading_progress.items[<<"U+D800">>] = ProgressEntry(2, 0)
    /\ progress_file.state = "malformed"

\* C5: loading the settings or the progress document never raises and never
\* aborts the session: whatever the state of the document, content that
\* parses to something other than a mapping included, the loaded value is a
\* mapping the rest of the session uses without error.
C5_LoadNeverFails ==
    /\ pc # "crashed"
    /\ pc \in {"constructed", "running"} => settings.type = "dict"
    /\ pc = "running" => reading_progress.type = "dict"

\* the text has a heading line whose number is too long for int()
ParseFails(text) ==
    LET lines == split(text)
    IN \E i \in 1..Len(lines) :
           LET t == strip(lines[i])
               n == DigitRun(t, 2)
           IN /\ Len(t) >= 1
              /\ t[1] = "U+7B2C"
              /\ n > IntMaxStrDigits
              /\ Len(t) >= n + 3
              /\ t[n + 2] = "U+7AE0"

\* the *.txt files of a listing that can be read, decoded and parsed
Loadable(files) ==
    LET Good(f) == /\ f.name.suffix = ".txt"
                   /\ f.enc \in {"utf8", "gbk"}
                   /\ ~ParseFails(f.text)
    IN SelectSeq(files, Good)

\* the catalog expected of each directory: one entry for each loadable file,
\* under the file's name, with the novel parsed from the file
ExpectedCatalog ==
    [dir \in NovelDirs |->
        LET good == IF dir = <<>> THEN <<>> ELSE Loadable(Files(dir[1]))
        IN [i \in 1..Len(good) |->
               [key |-> good[i].name,
                novel |-> parse_content(good[i].text).value[1]]]]

\* the catalog is the one expected of the directory and the tree shows one
\* row for each of its entries
ScanResult(dir, cat, tree) ==
    /\ cat = ExpectedCatalog[dir]
    /\ Len(tree) = Len(cat)
    /\ \A i \in 1..Len(cat) : tree[i].title = cat[i].novel.title

\* a step that scans the library while the directory holds `dir`: the
\* constructor when it gets that far, or the refresh button (which leaves
\* the navigation state alone)
ScanStep(dir) ==
    \/ dir = novel_dir /\ Construct /\ pc' = "constructed"
    \/ /\ novel_dir' = IF dir = <<>> THEN << <<>> >> ELSE dir
       /\ UNCHANGED <<current_novel, current_chapter, reading_progress>>
       /\ Refresh(dir)

\* C6: after every library scan the catalog holds exactly one entry, keyed
\* by file name, for each *.txt file of the directory that could be read and
\* decoded and none for any other file; a file that fails is left out and
\* the files after it are still loaded; an absent directory is created and
\* the catalog is empty.  (The directory scanned is the one the constructor
\* finds, or the one a refresh leaves behind, or was absent.)
C6_ScanLoadsExactlyGoodFiles ==
    [][\A dir \in {novel_dir, novel_dir', <<>>} :
          ScanStep(dir) =>
              /\ ScanResult(dir, novels', novel_tree')
              /\ dir = <<>> => novel_dir' = << <<>> >> /\ novels' = <<>>
              /\ dir # <<>> => novel_dir' = dir]_vars

\* the catalog holds a file enumerated after one that failed to decode and
\* after one that could not be opened
C6_Witness ==
    /\ pc = "running"
    /\ novel_dir # <<>>
    /\ Len(novel_dir[1]) = 2
    /\ read_file(novel_dir[1][1]).enc \in {"undecodable", "unreadable"}
    /\ Len(novels) = 1
    /\ novels[1].key = novel_dir[1][2]

\* a step of the running session that writes to the progress store
ProgressStoreChanged ==
    /\ pc = "running"
    /\ reading_progress' # reading_progress \/ progress_file' # progress_file

\* the entry under the current novel's title is an index into its chapters
EntryIsValidIndex ==
    /\ current_novel' # <<>>
    /\ reading_progress'.type = "dict"
    /\ current_novel'[1].title \in DOMAIN reading_progress'.items
    /\ reading_progress'.items[current_novel'[1].title].chapter
           \in 0..(ChapterCount(current_novel') - 1)

\* C12: every progress entry the session writes, after any sequence of
\* selections, next, previous, combo box choices, refreshes and the closing
\* of the window, records a chapter index c with 0 <= c < chapter count of
\* the novel it is written for; none is written for a novel without
\* chapters.
C12_EntriesAreValidIndexes ==
    [][ProgressStoreChanged => EntryIsValidIndex]_vars

\* the window was closed on a novel without chapters and its title now has
\* an entry in reading_progress.json
C12_Witness ==
    /\ pc = "closed"
    /\ current_novel # <<>>
    /\ ChapterCount(current_novel) = 0
    /\ progress_file.state = "json"
    /\ current_novel[1].title \in DOMAIN progress_file.value.items

\* the font size of a JSON document is absent or an int within the slider's
\* range
FontSizeValid(doc) ==
    (doc.type = "dict" /\ KeyFontSize \in DOMAIN doc.items) =>
        /\ doc.items[KeyFontSize].type = "int"
        /\ doc.items[KeyFontSize].int \in ScaleFrom..ScaleTo

\* C11: in every state of a session after its start, whatever settings
\* document was there at startup, the font size in self.settings and the
\* font size in settings.json are each absent or an integer from 10 to 20.
C11_FontSizeInRange ==
    pc # "start" =>
        /\ FontSizeValid(settings)
        /\ settings_file.state = "json" => FontSizeValid(settings_file.value)

\* a session that started from a document with font size 99 and was closed
C11_Witness ==
    /\ pc = "closed"
    /\ settings = FontSizeDoc(JInt(99)).value
    /\ settings_file = FontSizeDoc(JInt(99))
====
